---------------------------- MODULE Spec2Model ----------------------------
(***************************************************************************)
(* State-machine model of the freqlab audio preview core:                  *)
(*   - the SPSC ring buffer wrappers   (src-tauri/src/audio/buffer.rs)     *)
(*   - the crash guard                 (audio/plugin/crash_guard.rs)       *)
(*   - the plugin file watcher         (audio/plugin/file_watcher.rs)      *)
(* Every subsystem has its own variables, initial condition, actions and   *)
(* specification; a specification leaves the other subsystems parked in   *)
(* their constructed state.                                                *)
(***************************************************************************)
EXTENDS Integers, Sequences, FiniteSets, TLC

VARIABLES
    \* ---- ring buffer (buffer.rs) ----
    capacity,       \* HeapRb::new(capacity)
    rb_storage,     \* the ring's slots, [0..capacity-1 -> sample]
    rb_read,        \* consumer index, modulo 2*capacity
    rb_write,       \* producer index, modulo 2*capacity
    bufOp,          \* the last wrapper call: its arguments and what it returned
    pushedLog,      \* samples the producer was told were accepted, in order
    poppedLog,      \* samples the consumer received, in order
    \* ---- crash guard (crash_guard.rs, unix) ----
    platform,           \* cfg(target_os): "macos" or "linux"
    process,            \* "running" or "terminated"
    sigaction,          \* the process's disposition of each guarded signal
    PREV,               \* PREV_SIGABRT / PREV_SIGSEGV / PREV_SIGBUS
    HANDLERS_INSTALLED, \* AtomicBool
    JUMP_active,        \* JUMP_BUFFER.active
    JUMP_buf,           \* JUMP_BUFFER.buf: whose sigsetjmp filled it
    CRASH_CAUGHT,       \* AtomicBool
    CRASH_SIGNAL,       \* AtomicI32
    gpc,                \* where the producer thread is in with_crash_guard
    call,               \* the with_crash_guard invocation in progress
    otherThread,        \* a thread that never calls with_crash_guard
    guardLog,           \* what each finished with_crash_guard call returned
    lastSig,            \* how the last guarded signal raised was disposed of
    armedCalls,         \* invocations that stored active = true and not yet false
    \* ---- plugin watcher (file_watcher.rs) ----
    watcher,            \* self.watcher: 0 (None) or the generation of the watcher
    watched_path,       \* self.watched_path
    callback,           \* self.callback: 0 (None) or the generation's callback
    shutdown_tx,        \* self.shutdown_tx: 0 (None) or the generation it stops
    last_event_time,    \* the shared Option<Instant>, as the time elapsed since it
    callback_path,      \* the shared Option<PathBuf>
    cbPathLock,         \* who holds the callback_path mutex
    spawned,            \* debounce threads spawned so far
    dpc,                \* where each debounce thread is
    waited,             \* how long each debounce thread has been in recv_timeout
    evq,                \* messages queued on each event channel (rx)
    events,             \* modify/create events delivered so far
    evTx,               \* whether the event channel's sender still exists
    shq,                \* messages queued on each shutdown channel
    fsWatch,            \* the path each watcher has registered with the OS
    ctl,                \* the thread that owns the PluginWatcher: its call in progress
    watchRet,           \* what the last watch() returned
    sinceEvent,         \* time since the last modify/create event was delivered
    burstLen,           \* events of the current burst
    burstFires,         \* reloads decided for the current burst
    earlyFire,          \* a reload was decided within the window after an event
    cancelled,          \* unwatch cleared a pending timestamp since the last event
    lastCallback,       \* the last callback invocation: whose callback, which path
    \* ---- plugin host (plugin/mod.rs) ----
    host_state,         \* PluginHostState.state: the PluginState
    host_plugin,        \* PluginHostState.plugin: 0 (None) or the instance
    host_plugin_type,   \* PluginHostState.plugin_type
    host_auto_reload,   \* PluginHostState.auto_reload
    host_watched_path,  \* PluginHostState.watched_path
    instances,          \* plugin instances created so far
    crashedInsts,       \* instances whose guarded call returned Crashed
    attemptPre,         \* the resources as the running load/reload found them
    host_ev,            \* what the host did last
    \* ---- editor window (plugin/editor/windows.rs) ----
    ed_gui,             \* which entry points the plugin's GUI extension provides
    ed_step,            \* the statement of destroy_editor_window to run next (0: not running)
    ed_window,          \* the `window` argument of the running destroy_editor_window
    ed_hwnd,            \* the host window: "none", "open" or "destroyed"
    ed_plugin_gui,      \* the plugin's GUI: "none", "created" or "destroyed"
    ed_parent,          \* the parent the plugin GUI was last handed
    ed_shown,           \* whether the plugin GUI is shown
    ed_calls,           \* the calls made by the running or last operation
    ed_ret,             \* what create_editor_window_at returned

    \* ---- sample player (audio/samples.rs, SamplePlayer) ----
    sp_sample,              \* Option<AudioSample>: None or Some(data)
    sp_position,            \* position, a frame index
    sp_is_playing,
    sp_is_looping,
    sp_speed_ratio,         \* speed_ratio, in units of 1/FracUnit
    sp_fractional_position, \* fractional_position, in units of 1/FracUnit
    sp_out,                 \* what the last next_sample returned, times FracUnit
    sp_op,                  \* the last operation called
    sp_ended,               \* next_sample has found the end of a non-looping sample
    sp_unloaded_at_end,     \* unload was called after that, and none of stop,
                            \* load_sample and set_looping(true) since (ghost)
    sp_run,                 \* next_sample calls made in an undisturbed looping run
                            \* at speed 1.0 from position 0, or NoRun

    \* ---- signal generator (audio/signals.rs, SignalGenerator) ----
    sg_config,              \* SignalConfig
    sg_phase,               \* phase, in units of 1/SAMPLE_RATE
    sg_sweep_phase,         \* sweep_phase, a count of samples
    sg_gate_phase,          \* gate_phase, a count of samples
    sg_pink_rows,           \* pink_rows, in units of 1/SampleUnit
    sg_pink_running_sum,    \* pink_running_sum, in units of 1/SampleUnit
    sg_pink_index,
    sg_out,                 \* the sample the last operation returned (silence
                            \* if none), in units of 1/(SampleUnit * AmpUnit)
    sg_gate,                \* the gate multiplier the last operation computed
                            \* (1 if none)
    sg_op,                  \* the last operation called
    sg_n,                   \* next_sample calls made since the gate phase was
                            \* reset with the gate settings untouched, or NoRun
    sg_impulse_run,         \* the calls made and impulses emitted since the
                            \* phase was reset (ghost)

    \* ---- output device configuration (audio/device.rs) ----
    dev_device,             \* what the cpal device answers to the two queries
    dev_preferred,          \* the preferred AudioConfig
    dev_result,             \* what get_supported_config returned
    dev_op,                 \* "none" or "get_supported_config"

    \* ---- concurrent callers of install_handlers (crash_guard.rs) ----
    ins_pc,                 \* where each calling thread is in with_crash_guard
    ins_calls,              \* with_crash_guard calls started so far
    ins_runs,               \* times the sigaction installation block was entered

    \* ---- sample loading (audio/samples.rs, AudioSample::load) ----
    ld_file,                \* what the file system and symphonia answer for the path
    ld_result,              \* what AudioSample::load returned
    ld_op,                  \* "none" or "load"

    \* ---- device layer (audio/device.rs) ----
    dl_host,                \* what the cpal host answers
    dl_op,                  \* the call made, with its argument
    dl_result,              \* what the call returned

    \* ---- PLUGIN_HOST_STATE (audio/plugin/mod.rs) ----
    oc_cell,                \* the OnceCell: empty, being initialised, or set
    oc_pc,                  \* where each thread is in its call
    oc_ret,                 \* what each thread's last call returned
    oc_created,             \* PluginHostState::new() calls made
    oc_instance,            \* the fields PluginHostState::new() gave the instance
    oc_calls,               \* calls started, and init_plugin_host calls returned

    \* ---- kinds of the events delivered to the watcher's closure (ghost) ----
    ev_seen,                \* whether a Modify or Create event, and whether
                            \* any other event or an error, has been delivered

    \* ---- window class registration (audio/plugin/editor/windows.rs) ----
    wc_flag,                \* WINDOW_CLASS_REGISTERED
    wc_class,               \* whether the OS has the window class registered
    wc_pc,                  \* where each thread is in ensure_window_class_registered
    wc_ret,                 \* what each thread's last call returned
    wc_calls                \* calls started so far

bufVars == <<capacity, rb_storage, rb_read, rb_write, bufOp, pushedLog, poppedLog>>

guardVars == <<platform, process, sigaction, PREV, HANDLERS_INSTALLED, JUMP_active,
               JUMP_buf, CRASH_CAUGHT, CRASH_SIGNAL, gpc, call, otherThread,
               guardLog, lastSig, armedCalls>>

watchVars == <<watcher, watched_path, callback, shutdown_tx, last_event_time,
               events, callback_path, cbPathLock, spawned, dpc, waited, evq,
               evTx, shq, fsWatch, ctl, watchRet, sinceEvent, burstLen, burstFires,
               earlyFire, cancelled, lastCallback>>

hostVars == <<host_state, host_plugin, host_plugin_type, host_auto_reload,
              host_watched_path, instances, crashedInsts, attemptPre, host_ev>>

spVars == <<sp_sample, sp_position, sp_is_playing, sp_is_looping, sp_speed_ratio,
            sp_fractional_position, sp_out, sp_op, sp_ended, sp_run,
            sp_unloaded_at_end>>

sgVars == <<sg_config, sg_phase, sg_sweep_phase, sg_gate_phase, sg_pink_rows,
            sg_pink_running_sum, sg_pink_index, sg_out, sg_gate, sg_op, sg_n,
            sg_impulse_run>>

devVars == <<dev_device, dev_preferred, dev_result, dev_op>>

edVars == <<ed_gui, ed_step, ed_window, ed_hwnd, ed_plugin_gui, ed_parent,
            ed_shown, ed_calls, ed_ret>>

insVars == <<ins_pc, ins_calls, ins_runs>>

ldVars == <<ld_file, ld_result, ld_op>>

dlVars == <<dl_host, dl_op, dl_result>>

ocVars == <<oc_cell, oc_pc, oc_ret, oc_created, oc_instance, oc_calls>>

kindVars == <<ev_seen>>

wcVars == <<wc_flag, wc_class, wc_pc, wc_ret, wc_calls>>

lateVars == <<kindVars, wcVars>>

auxVars == <<insVars, ldVars, dlVars, ocVars, lateVars>>

vars == <<bufVars, guardVars, watchVars, hostVars, edVars, spVars, sgVars, devVars,
          auxVars>>

\* What the actions of one subsystem leave alone: the other subsystems.
notBuf == <<guardVars, watchVars, hostVars, edVars, spVars, sgVars, devVars,
            auxVars>>
notGuard == <<bufVars, watchVars, hostVars, edVars, spVars, sgVars, devVars,
              auxVars>>
notWatch == <<bufVars, guardVars, hostVars, edVars, spVars, sgVars, devVars,
              auxVars>>
notHost == <<bufVars, guardVars, watchVars, edVars, spVars, sgVars, devVars,
             auxVars>>
notEd == <<bufVars, guardVars, watchVars, hostVars, spVars, sgVars, devVars,
           auxVars>>
notSp == <<bufVars, guardVars, watchVars, hostVars, edVars, sgVars, devVars,
           auxVars>>
notSg == <<bufVars, guardVars, watchVars, hostVars, edVars, spVars, devVars,
           auxVars>>
notDev == <<bufVars, guardVars, watchVars, hostVars, edVars, spVars, sgVars,
            auxVars>>

\* What the concurrent callers of install_handlers leave alone besides the
\* crash guard's own state.
notIns == <<bufVars, watchVars, hostVars, edVars, spVars, sgVars, devVars,
           ldVars, dlVars, ocVars, lateVars>>

coreVars == <<bufVars, guardVars, watchVars, hostVars, edVars, spVars, sgVars,
              devVars>>
notLd == <<coreVars, insVars, dlVars, ocVars, lateVars>>
notDl == <<coreVars, insVars, ldVars, ocVars, lateVars>>
notOc == <<coreVars, insVars, ldVars, dlVars, lateVars>>
notWc == <<coreVars, insVars, ldVars, dlVars, ocVars, kindVars>>

\* What an observed event delivery leaves alone besides the watcher's state.
notKind == <<bufVars, guardVars, hostVars, edVars, spVars, sgVars, devVars,
            insVars, ldVars, dlVars, ocVars, wcVars>>

Min(a, b) == IF a < b THEN a ELSE b

(***************************************************************************)
(*                              RING BUFFER                                *)
(***************************************************************************)

\* Bounds of the ring-buffer model.
MaxCap == 2
MaxSampleVal == 1
MaxSlice == 2
MaxPushed == 3

\* StereoSample::silence() is StereoSample::default(): (0.0, 0.0).
Silence == 0

\* Sample values: Silence and MaxSampleVal distinct audible frames.
SampleVals == Silence..MaxSampleVal

Slices == UNION {[1..n -> SampleVals] : n \in 0..MaxSlice}

\* The output slices handed to pop_slice: a buffer of any length up to
\* MaxSlice, holding whatever the caller left in it (one value throughout).
OutputSlices == {[i \in 1..n |-> x] : n \in 0..MaxSlice, x \in SampleVals}

\* Option<StereoSample> as a sequence of length 0 (None) or 1 (Some).
None == <<>>
Some(x) == <<x>>

\* ringbuf keeps both indices modulo 2*capacity so that full and empty differ.
occupied_len == (rb_write - rb_read + 2 * capacity) % (2 * capacity)
vacant_len == capacity - occupied_len
is_full == vacant_len = 0
is_empty == occupied_len = 0

\* The queued samples, oldest first, as the storage and the indices hold them.
Queued == [i \in 1..occupied_len |-> rb_storage[(rb_read + i - 1) % capacity]]

\* AudioRingBuffer::new(c) followed by split(): an empty ring of c slots.
BufNew(c) ==
    /\ capacity = c
    /\ rb_storage = [i \in 0..(c - 1) |-> Silence]
    /\ rb_read = 0
    /\ rb_write = 0
    /\ bufOp = [op |-> "new", arg |-> <<>>, ret |-> 0, got |-> None,
                out |-> <<>>, occ |-> 0]
    /\ pushedLog = <<>>
    /\ poppedLog = <<>>

BufInit == \E c \in 1..MaxCap : BufNew(c)

BufParked == BufNew(1)

\* Mutant of PushCount: the producer writes the whole slice, full or not.
PushCountNoFullCheck(n) == n

\* How many samples of a slice of length n the producer enqueues.
PushCount(n) == Min(n, vacant_len)

\* Mutant of PopCount: the consumer reads without looking at the occupancy.
PopCountNoEmptyCheck(n) == n

\* How many samples a pop into a slice of length n dequeues.
PopCount(n) == Min(n, occupied_len)

\* Mutant of SliceAfterPop: every output entry is copied from the ring's
\* storage, so entries past the k dequeued ones receive stale ring memory.
SliceAfterPopStale(output, k) ==
    [i \in 1..Len(output) |-> rb_storage[(rb_read + i - 1) % capacity]]

\* The caller's output slice after pop_slice dequeued k samples into it: the
\* first k entries are overwritten, the others are not written.
SliceAfterPop(output, k) ==
    [i \in 1..Len(output) |->
        IF i <= k THEN rb_storage[(rb_read + i - 1) % capacity] ELSE output[i]]

\* Mutant of Advance: the index wraps at the capacity.
AdvanceWithinCapacity(index, k) == (index + k) % capacity

\* An index moved on by k slots: the indices live modulo 2*capacity.
Advance(index, k) == (index + k) % (2 * capacity)

\* Write samples[1..k] at the write index and publish the new index.
Enqueue(samples, k) ==
    /\ rb_storage' = [i \in 0..(capacity - 1) |->
            IF \E j \in 1..k : (rb_write + j - 1) % capacity = i
            THEN samples[CHOOSE j \in 1..k : (rb_write + j - 1) % capacity = i]
            ELSE rb_storage[i]]
    /\ rb_write' = Advance(rb_write, k)

\* AudioProducer::push: try_push(sample).is_ok()
push(sample) ==
    /\ Len(pushedLog) < MaxPushed
    /\ LET k == PushCount(1) IN
        /\ Enqueue(<<sample>>, k)
        /\ bufOp' = [op |-> "push", arg |-> <<sample>>, ret |-> k, got |-> None,
                     out |-> <<>>, occ |-> occupied_len]
        /\ pushedLog' = pushedLog \o SubSeq(<<sample>>, 1, k)
    /\ UNCHANGED <<capacity, rb_read, poppedLog, notBuf>>

\* AudioProducer::push_slice: returns the number pushed
push_slice(samples) ==
    /\ Len(pushedLog) < MaxPushed
    /\ LET k == PushCount(Len(samples)) IN
        /\ Enqueue(samples, k)
        /\ bufOp' = [op |-> "push_slice", arg |-> samples, ret |-> k, got |-> None,
                     out |-> <<>>, occ |-> occupied_len]
        /\ pushedLog' = pushedLog \o SubSeq(samples, 1, k)
    /\ UNCHANGED <<capacity, rb_read, poppedLog, notBuf>>

\* AudioConsumer::pop: try_pop(), None if empty
pop ==
    /\ LET k == PopCount(1)
           got == IF k = 1 THEN Some(rb_storage[rb_read % capacity]) ELSE None IN
        /\ rb_read' = Advance(rb_read, k)
        /\ bufOp' = [op |-> "pop", arg |-> <<>>, ret |-> k, got |-> got,
                     out |-> <<>>, occ |-> occupied_len]
        /\ poppedLog' = poppedLog \o got
    /\ UNCHANGED <<capacity, rb_storage, rb_write, pushedLog, notBuf>>

\* AudioConsumer::pop_slice(output): fills output[..k], returns k
pop_slice(output) ==
    /\ LET k == PopCount(Len(output))
           out == SliceAfterPop(output, k) IN
        /\ rb_read' = Advance(rb_read, k)
        /\ bufOp' = [op |-> "pop_slice", arg |-> output, ret |-> k, got |-> None,
                     out |-> out, occ |-> occupied_len]
        /\ poppedLog' = poppedLog \o SubSeq(out, 1, k)
    /\ UNCHANGED <<capacity, rb_storage, rb_write, pushedLog, notBuf>>

Push == \E s \in SampleVals : push(s)
PushSlice == \E samples \in Slices : push_slice(samples)
Pop == pop
PopSlice == \E output \in OutputSlices : pop_slice(output)

BufNext ==
    \/ Push
    \/ PushSlice
    \/ Pop
    \/ PopSlice

(***************************************************************************)
(*                               CRASH GUARD                               *)
(***************************************************************************)

\* Bounds of the crash-guard model.
MaxCalls == 2
MaxCloVal == 2

\* libc signal numbers (SIGBUS is 10 on macOS and 7 on Linux).
SIGABRT == 6
SIGSEGV == 11
SIGBUS == IF platform = "macos" THEN 10 ELSE 7

GuardedSignals == {SIGABRT, SIGSEGV, SIGBUS}
AllSignalNumbers == {6, 7, 10, 11}

\* What a sigaction slot can hold: the default disposition, ignore, a handler
\* the application or runtime installed earlier, or the crash guard's handler.
EarlierHandlers == {"SIG_DFL", "SIG_IGN", "app_handler"}

\* The closures handed to with_crash_guard: one that returns a value, one
\* whose body raises a guarded signal.
CloVals == 1..MaxCloVal
Closures ==
    {[kind |-> "return", v |-> v] : v \in CloVals}
        \cup {[kind |-> "raise", v |-> sig] : sig \in GuardedSignals}

\* A value read from memory the crash left in an unknown state.
Indeterminate == "indeterminate"

NoCall == [id |-> 0, f |-> [kind |-> "none", v |-> 0], jmp_result |-> 0,
           fRuns |-> 0, val |-> 0]
NoSig == [sig |-> 0, thread |-> "none", inGuard |-> FALSE, action |-> "none"]

\* Process start: statics as initialised, no call made yet.
GuardStart(os, disp) ==
    /\ platform = os
    /\ process = "running"
    /\ sigaction = disp
    /\ PREV = [n \in AllSignalNumbers |-> "SIG_DFL"]
    /\ HANDLERS_INSTALLED = FALSE
    /\ JUMP_active = FALSE
    /\ JUMP_buf = "zeroed"
    /\ CRASH_CAUGHT = FALSE
    /\ CRASH_SIGNAL = 0
    /\ gpc = "idle"
    /\ call = NoCall
    /\ otherThread = "running"
    /\ guardLog = <<>>
    /\ lastSig = NoSig
    /\ armedCalls = {}

GuardInit ==
    \E os \in {"macos", "linux"} :
        \E disp \in [AllSignalNumbers -> EarlierHandlers] :
            /\ disp[IF os = "macos" THEN 7 ELSE 10] = "SIG_DFL"
            /\ GuardStart(os, disp)

GuardParked == GuardStart("macos", [n \in AllSignalNumbers |-> "SIG_DFL"])

\* The frame that invoked (sig)setjmp: on macOS with_crash_guard calls the
\* libc sigsetjmp itself; on Linux it calls the crate's own `sigsetjmp`
\* function, which calls __sigsetjmp and returns.
SetjmpFrame == IF platform = "macos" THEN "with_crash_guard" ELSE "sigsetjmp"

\* Mutant of NormalPath: the two branches on the sigsetjmp result swapped.
NormalPathInverted(jmp_result) == jmp_result # 0

\* `if jmp_result == 0`: the direct return of sigsetjmp.
NormalPath(jmp_result) == jmp_result = 0

\* Mutant of ActiveAfterCrash: the crash branch leaves the guard armed.
ActiveLeftArmed == TRUE

\* The crash branch's JUMP_BUFFER.active.store(false).
ActiveAfterCrash == FALSE

\* Where a siglongjmp through JUMP_BUFFER.buf, executed on thread t, can take
\* the program.  It is defined only when t is the thread that filled the
\* buffer and the frame that called sigsetjmp has not returned; otherwise
\* the behaviour is undefined and the build decides.
LongjmpOutcomes(t) ==
    IF t = "producer" /\ JUMP_buf = "with_crash_guard"
    THEN {"resume_setjmp"}
    ELSE IF t = "producer"
    THEN {"resume_setjmp", "resume_after_f", "terminated"}
    ELSE {"foreign_resume", "terminated"}

\* siglongjmp(JUMP_BUFFER.buf.get(), 1) called from the handler on thread t.
siglongjmp(t) ==
    \E o \in LongjmpOutcomes(t) :
        /\ process' = IF o = "terminated" THEN "terminated" ELSE "running"
        /\ gpc' = CASE o = "resume_setjmp" -> "branch"
                    [] o = "resume_after_f" -> "disarm_ok"
                    [] OTHER -> gpc
        /\ call' = CASE o = "resume_setjmp" -> [call EXCEPT !.jmp_result = 1]
                     [] o = "resume_after_f" -> [call EXCEPT !.val = Indeterminate]
                     [] OTHER -> call
        /\ otherThread' = IF o = "foreign_resume" THEN "corrupt" ELSE otherThread
        /\ JUMP_active' = IF o = "foreign_resume" THEN ActiveAfterCrash ELSE JUMP_active
        /\ armedCalls' = IF o = "foreign_resume" THEN {} ELSE armedCalls

\* crash_signal_handler(sig), running on thread t.
crash_signal_handler(sig, t, inGuard) ==
    IF JUMP_active
    THEN /\ CRASH_CAUGHT' = TRUE
         /\ CRASH_SIGNAL' = sig
         /\ siglongjmp(t)
         /\ lastSig' = [sig |-> sig, thread |-> t, inGuard |-> inGuard,
                        action |-> "jump"]
         /\ UNCHANGED sigaction
    ELSE /\ IF PREV[sig] \notin {"SIG_DFL", "SIG_IGN"}
            THEN /\ lastSig' = [sig |-> sig, thread |-> t, inGuard |-> inGuard,
                                action |-> "prev_handler"]
                 /\ UNCHANGED <<sigaction, process>>
            ELSE /\ sigaction' = [sigaction EXCEPT ![sig] = "SIG_DFL"]
                 /\ process' = "terminated"
                 /\ lastSig' = [sig |-> sig, thread |-> t, inGuard |-> inGuard,
                                action |-> "default"]
         /\ UNCHANGED <<CRASH_CAUGHT, CRASH_SIGNAL, gpc, call, otherThread,
                        JUMP_active, armedCalls>>

\* The kernel delivers guarded signal sig, raised by thread t.
Deliver(sig, t, inGuard) ==
    /\ CASE sigaction[sig] = "crash_signal_handler" ->
                crash_signal_handler(sig, t, inGuard)
         [] sigaction[sig] = "SIG_DFL" ->
                /\ process' = "terminated"
                /\ lastSig' = [sig |-> sig, thread |-> t, inGuard |-> inGuard,
                               action |-> "default"]
                /\ UNCHANGED <<sigaction, CRASH_CAUGHT, CRASH_SIGNAL, gpc, call,
                               otherThread, JUMP_active, armedCalls>>
         [] OTHER ->
                /\ lastSig' = [sig |-> sig, thread |-> t, inGuard |-> inGuard,
                               action |-> sigaction[sig]]
                /\ UNCHANGED <<process, sigaction, CRASH_CAUGHT, CRASH_SIGNAL, gpc,
                               call, otherThread, JUMP_active, armedCalls>>
    /\ UNCHANGED <<platform, PREV, HANDLERS_INSTALLED, JUMP_buf, guardLog, notGuard>>

\* The producer thread calls with_crash_guard(f) for the next block.
ProducerCallsGuard ==
    /\ process = "running" /\ gpc = "idle"
    /\ Len(guardLog) < MaxCalls
    /\ \E f \in Closures :
        call' = [id |-> Len(guardLog) + 1, f |-> f, jmp_result |-> 0,
                 fRuns |-> 0, val |-> 0]
    /\ gpc' = "install_swap"
    /\ UNCHANGED <<platform, process, sigaction, PREV, HANDLERS_INSTALLED,
                   JUMP_active, JUMP_buf, CRASH_CAUGHT, CRASH_SIGNAL, otherThread,
                   guardLog, lastSig, armedCalls, notGuard>>

\* Mutant of AlreadyInstalled: the flag is set but its old value is not used.
InstalledIgnored(was) == FALSE

\* `if HANDLERS_INSTALLED.swap(true, SeqCst) { return; }`: the value the
\* atomic swap returns is the one the flag had before.
AlreadyInstalled(was) == was

\* install_handlers: HANDLERS_INSTALLED.swap(true); return if it was set.
InstallSwap ==
    /\ process = "running" /\ gpc = "install_swap"
    /\ HANDLERS_INSTALLED' = TRUE
    /\ gpc' = IF AlreadyInstalled(HANDLERS_INSTALLED) THEN "reset_flag"
              ELSE "install_sigaction"
    /\ UNCHANGED <<platform, process, sigaction, PREV, JUMP_active, JUMP_buf,
                   CRASH_CAUGHT, CRASH_SIGNAL, call, otherThread, guardLog,
                   lastSig, armedCalls, notGuard>>

\* install_handlers: the three sigaction calls, each saving the old action.
InstallSigactions ==
    /\ process = "running" /\ gpc = "install_sigaction"
    /\ PREV' = [n \in AllSignalNumbers |->
                    IF n \in GuardedSignals THEN sigaction[n] ELSE PREV[n]]
    /\ sigaction' = [n \in AllSignalNumbers |->
                    IF n \in GuardedSignals THEN "crash_signal_handler"
                    ELSE sigaction[n]]
    /\ gpc' = "reset_flag"
    /\ UNCHANGED <<platform, process, HANDLERS_INSTALLED, JUMP_active, JUMP_buf,
                   CRASH_CAUGHT, CRASH_SIGNAL, call, otherThread, guardLog,
                   lastSig, armedCalls, notGuard>>

\* CRASH_CAUGHT.store(false)
ResetCrashFlag ==
    /\ process = "running" /\ gpc = "reset_flag"
    /\ CRASH_CAUGHT' = FALSE
    /\ gpc' = "sigsetjmp"
    /\ UNCHANGED <<platform, process, sigaction, PREV, HANDLERS_INSTALLED,
                   JUMP_active, JUMP_buf, CRASH_SIGNAL, call, otherThread,
                   guardLog, lastSig, armedCalls, notGuard>>

\* let jmp_result = sigsetjmp(JUMP_BUFFER.buf.get(), 1): the direct return.
SigSetJmp ==
    /\ process = "running" /\ gpc = "sigsetjmp"
    /\ JUMP_buf' = SetjmpFrame
    /\ call' = [call EXCEPT !.jmp_result = 0]
    /\ gpc' = "branch"
    /\ UNCHANGED <<platform, process, sigaction, PREV, HANDLERS_INSTALLED,
                   JUMP_active, CRASH_CAUGHT, CRASH_SIGNAL, otherThread,
                   guardLog, lastSig, armedCalls, notGuard>>

\* if jmp_result == 0 { normal path } else { crash path }
Branch ==
    /\ process = "running" /\ gpc = "branch"
    /\ gpc' = IF NormalPath(call.jmp_result) THEN "arm" ELSE "crash_branch"
    /\ UNCHANGED <<platform, process, sigaction, PREV, HANDLERS_INSTALLED,
                   JUMP_active, JUMP_buf, CRASH_CAUGHT, CRASH_SIGNAL, call,
                   otherThread, guardLog, lastSig, armedCalls, notGuard>>

\* JUMP_BUFFER.active.store(true)
Arm ==
    /\ process = "running" /\ gpc = "arm"
    /\ JUMP_active' = TRUE
    /\ armedCalls' = armedCalls \cup {call.id}
    /\ gpc' = "in_f"
    /\ UNCHANGED <<platform, process, sigaction, PREV, HANDLERS_INSTALLED,
                   JUMP_buf, CRASH_CAUGHT, CRASH_SIGNAL, call, otherThread,
                   guardLog, lastSig, notGuard>>

\* let result = f(): f runs to its end.
ClosureReturns ==
    /\ process = "running" /\ gpc = "in_f"
    /\ call.f.kind = "return"
    /\ call' = [call EXCEPT !.fRuns = @ + 1, !.val = call.f.v]
    /\ gpc' = "disarm_ok"
    /\ UNCHANGED <<platform, process, sigaction, PREV, HANDLERS_INSTALLED,
                   JUMP_active, JUMP_buf, CRASH_CAUGHT, CRASH_SIGNAL, otherThread,
                   guardLog, lastSig, armedCalls, notGuard>>

\* let result = f(): f raises a guarded signal on the producer thread.
ClosureRaises ==
    /\ process = "running" /\ gpc = "in_f"
    /\ call.f.kind = "raise"
    /\ Deliver(call.f.v, "producer", TRUE)

\* Mutant of ActiveAfterOk: the normal path returns with the guard armed.
ActiveKeptAfterOk == TRUE

\* The normal path's JUMP_BUFFER.active.store(false) after f() has returned.
ActiveAfterOk == FALSE

\* JUMP_BUFFER.active.store(false); CrashGuardResult::Ok(result)
DisarmOk ==
    /\ process = "running" /\ gpc = "disarm_ok"
    /\ JUMP_active' = ActiveAfterOk
    /\ armedCalls' = IF ActiveAfterOk THEN armedCalls ELSE armedCalls \ {call.id}
    /\ guardLog' = Append(guardLog, [id |-> call.id, f |-> call.f, kind |-> "Ok",
                                     val |-> call.val, fRuns |-> call.fRuns])
    /\ call' = NoCall
    /\ gpc' = "idle"
    /\ UNCHANGED <<platform, process, sigaction, PREV, HANDLERS_INSTALLED,
                   JUMP_buf, CRASH_CAUGHT, CRASH_SIGNAL, otherThread, lastSig, notGuard>>

\* JUMP_BUFFER.active.store(false); CrashGuardResult::Crashed(CRASH_SIGNAL)
CrashBranch ==
    /\ process = "running" /\ gpc = "crash_branch"
    /\ JUMP_active' = ActiveAfterCrash
    /\ armedCalls' = IF ActiveAfterCrash THEN armedCalls ELSE armedCalls \ {call.id}
    /\ guardLog' = Append(guardLog, [id |-> call.id, f |-> call.f,
                                     kind |-> "Crashed", val |-> CRASH_SIGNAL,
                                     fRuns |-> call.fRuns])
    /\ call' = NoCall
    /\ gpc' = "idle"
    /\ UNCHANGED <<platform, process, sigaction, PREV, HANDLERS_INSTALLED,
                   JUMP_buf, CRASH_CAUGHT, CRASH_SIGNAL, otherThread, lastSig, notGuard>>

\* Code of the producer thread outside any guarded call raises a guarded signal.
FaultOutsideGuard ==
    /\ process = "running" /\ gpc = "idle"
    /\ \E sig \in GuardedSignals : Deliver(sig, "producer", FALSE)

\* Another thread, which never enters with_crash_guard, raises a guarded signal.
FaultOnOtherThread ==
    /\ process = "running" /\ otherThread = "running"
    /\ \E sig \in GuardedSignals : Deliver(sig, "other", FALSE)

GuardNext ==
    \/ ProducerCallsGuard
    \/ InstallSwap
    \/ InstallSigactions
    \/ ResetCrashFlag
    \/ SigSetJmp
    \/ Branch
    \/ Arm
    \/ ClosureReturns
    \/ ClosureRaises
    \/ DisarmOk
    \/ CrashBranch
    \/ FaultOutsideGuard

GuardNextMT ==
    \/ GuardNext
    \/ FaultOnOtherThread


(***************************************************************************)
(*               CRASH GUARD: CONCURRENT CALLS OF install_handlers         *)
(***************************************************************************)

\* Bounds: the threads that call with_crash_guard, and the calls they make.
MaxThreads == 2
MaxInstallCalls == 3

InstallThreads == 1..MaxThreads

\* The order of the three sigaction calls of install_handlers.
InstallOrder == <<SIGABRT, SIGSEGV, SIGBUS>>

InsAt(at, i) == [at |-> at, i |-> i]
InsIdle == InsAt("idle", 0)

InsStart ==
    /\ ins_pc = [t \in InstallThreads |-> InsIdle]
    /\ ins_calls = 0
    /\ ins_runs = 0

InsParked == InsStart

\* Thread t calls with_crash_guard, which calls install_handlers first.
InsCall(t) ==
    /\ process = "running" /\ ins_pc[t] = InsIdle
    /\ ins_calls < MaxInstallCalls
    /\ ins_calls' = ins_calls + 1
    /\ ins_pc' = [ins_pc EXCEPT ![t] = InsAt("swap", 0)]
    /\ UNCHANGED <<ins_runs, guardVars, notIns>>

\* install_handlers on thread t: HANDLERS_INSTALLED.swap(true); return to
\* with_crash_guard if it was set, go on to the sigaction calls if not.
InsSwap(t) ==
    /\ process = "running" /\ ins_pc[t] = InsAt("swap", 0)
    /\ HANDLERS_INSTALLED' = TRUE
    /\ IF AlreadyInstalled(HANDLERS_INSTALLED)
       THEN /\ ins_pc' = [ins_pc EXCEPT ![t] = InsAt("guarded", 0)]
            /\ UNCHANGED ins_runs
       ELSE /\ ins_pc' = [ins_pc EXCEPT ![t] = InsAt("sigaction", 1)]
            /\ ins_runs' = ins_runs + 1
    /\ UNCHANGED <<ins_calls, platform, process, sigaction, PREV, JUMP_active,
                   JUMP_buf, CRASH_CAUGHT, CRASH_SIGNAL, gpc, call, otherThread,
                   guardLog, lastSig, armedCalls, notIns>>

\* libc::sigaction(sig, &action, &raw mut PREV_sig) on thread t: the old
\* disposition is saved and the crash guard's handler installed.
InsSigaction(t) ==
    /\ process = "running" /\ ins_pc[t].at = "sigaction"
    /\ LET i == ins_pc[t].i
           sig == InstallOrder[i]
       IN /\ PREV' = [PREV EXCEPT ![sig] = sigaction[sig]]
          /\ sigaction' = [sigaction EXCEPT ![sig] = "crash_signal_handler"]
          /\ ins_pc' = [ins_pc EXCEPT ![t] =
                            IF i < Len(InstallOrder) THEN InsAt("sigaction", i + 1)
                            ELSE InsAt("guarded", 0)]
    /\ UNCHANGED <<ins_calls, ins_runs, platform, process, HANDLERS_INSTALLED,
                   JUMP_active, JUMP_buf, CRASH_CAUGHT, CRASH_SIGNAL, gpc, call,
                   otherThread, guardLog, lastSig, armedCalls, notIns>>

\* The rest of with_crash_guard on thread t, up to its return: it reads and
\* writes none of HANDLERS_INSTALLED, the PREV_* statics and the dispositions.
InsReturn(t) ==
    /\ process = "running" /\ ins_pc[t] = InsAt("guarded", 0)
    /\ ins_pc' = [ins_pc EXCEPT ![t] = InsIdle]
    /\ UNCHANGED <<ins_calls, ins_runs, guardVars, notIns>>

InsNext ==
    \E t \in InstallThreads :
        \/ InsCall(t)
        \/ InsSwap(t)
        \/ InsSigaction(t)
        \/ InsReturn(t)

(***************************************************************************)
(*                              PLUGIN WATCHER                             *)
(***************************************************************************)

\* Bounds of the watcher model.
MaxWatches == 1
MaxEvents == 2

\* const DEBOUNCE_MS, and the recv_timeout of the debounce loop.
DEBOUNCE_MS == 500
POLL_MS == 100

\* Time advances in steps of half the debounce window (a poll interval has
\* always passed after one step); an elapsed time is kept up to
\* the first value past the debounce window.
TICK_MS == DEBOUNCE_MS \div 2
AgeCap == DEBOUNCE_MS + TICK_MS
\* An Option<Instant> that is None, and a mutex nobody holds.
NoTime == 0 - 1
Free == 0

Older(age) == IF age = NoTime THEN NoTime ELSE Min(age + TICK_MS, AgeCap)

Gens == 1..MaxWatches
Paths == {"plugin.clap"}
EventKinds == {"Modify", "Create", "Remove", "Access", "Other", "Error"}

\* PathBuf::default(), what unwrap_or_default() yields for None.
EmptyPath == ""

\* PluginWatcher::new()
WatchInit ==
    /\ watcher = 0
    /\ watched_path = "none"
    /\ callback = 0
    /\ shutdown_tx = 0
    /\ last_event_time = NoTime
    /\ callback_path = "none"
    /\ cbPathLock = Free
    /\ spawned = 0
    /\ dpc = [g \in Gens |-> "unspawned"]
    /\ waited = [g \in Gens |-> 0]
    /\ evq = [g \in Gens |-> 0]
    /\ events = 0
    /\ evTx = [g \in Gens |-> FALSE]
    /\ shq = [g \in Gens |-> 0]
    /\ fsWatch = [g \in Gens |-> "none"]
    /\ ctl = [pc |-> "idle", op |-> "new", path |-> "none"]
    /\ watchRet = "none"
    /\ sinceEvent = NoTime
    /\ burstLen = 0
    /\ burstFires = 0
    /\ earlyFire = FALSE
    /\ cancelled = FALSE
    /\ lastCallback = [gen |-> 0, path |-> "none"]

is_watching == watcher # 0

\* ---- the thread that owns the PluginWatcher ----

\* watch(path, callback) is called: it starts with self.unwatch().
CallWatch ==
    /\ ctl.pc = "idle" /\ spawned < MaxWatches
    /\ \E path \in Paths : ctl' = [pc |-> "u_release", op |-> "watch", path |-> path]
    /\ UNCHANGED <<watcher, watched_path, callback, shutdown_tx, last_event_time,
                   events, callback_path, cbPathLock, spawned, dpc, waited,
                   evq, evTx, shq, fsWatch, watchRet, sinceEvent, burstLen,
                   burstFires, earlyFire, cancelled, lastCallback, notWatch>>

\* unwatch() is called, in whatever state the watcher is.
CallUnwatch ==
    /\ ctl.pc = "idle"
    /\ ctl' = [pc |-> "u_release", op |-> "unwatch", path |-> "none"]
    /\ UNCHANGED <<watcher, watched_path, callback, shutdown_tx, last_event_time,
                   events, callback_path, cbPathLock, spawned, dpc, waited,
                   evq, evTx, shq, fsWatch, watchRet, sinceEvent, burstLen,
                   burstFires, earlyFire, cancelled, lastCallback, notWatch>>

\* The PluginWatcher is dropped: Drop::drop calls self.unwatch().
CallDrop ==
    /\ ctl.pc = "idle"
    /\ ctl' = [pc |-> "u_release", op |-> "drop", path |-> "none"]
    /\ UNCHANGED <<watcher, watched_path, callback, shutdown_tx, last_event_time,
                   events, callback_path, cbPathLock, spawned, dpc, waited,
                   evq, evTx, shq, fsWatch, watchRet, sinceEvent, burstLen,
                   burstFires, earlyFire, cancelled, lastCallback, notWatch>>

\* Mutant of WatcherAfterUnwatch: unwatch keeps self.watcher.
WatcherKept == watcher

\* unwatch: self.watcher = None
WatcherAfterUnwatch == 0

\* unwatch, first part: watcher.unwatch(path) if both are set; take the
\* shutdown sender, send () and drop it; clear watcher (dropping it drops the
\* event closure and its sender), watched_path and callback.
UnwatchRelease ==
    /\ ctl.pc = "u_release"
    /\ shq' = [g \in Gens |-> IF g = shutdown_tx THEN 1 ELSE shq[g]]
    /\ shutdown_tx' = 0
    /\ watcher' = WatcherAfterUnwatch
    /\ evTx' = [g \in Gens |->
                  IF g = watcher /\ WatcherAfterUnwatch = 0 THEN FALSE ELSE evTx[g]]
    /\ fsWatch' = [g \in Gens |->
                  IF g = watcher /\ (watched_path # "none" \/ WatcherAfterUnwatch = 0)
                  THEN "none" ELSE fsWatch[g]]
    /\ watched_path' = "none"
    /\ callback' = 0
    /\ ctl' = [ctl EXCEPT !.pc = "u_time"]
    /\ UNCHANGED <<last_event_time, events, callback_path, cbPathLock,
                   spawned, dpc, waited, evq, watchRet, sinceEvent, burstLen,
                   burstFires, earlyFire, cancelled, lastCallback, notWatch>>

\* unwatch: *self.last_event_time.lock() = None
UnwatchClearTime ==
    /\ ctl.pc = "u_time"
    /\ last_event_time' = NoTime
    /\ cancelled' = (cancelled \/ last_event_time # NoTime)
    /\ ctl' = [ctl EXCEPT !.pc = "u_path"]
    /\ UNCHANGED <<watcher, watched_path, callback, shutdown_tx, events,
                   callback_path, cbPathLock, spawned, dpc, waited, evq, evTx, shq,
                   fsWatch, watchRet, sinceEvent, burstLen, burstFires, earlyFire,
                   lastCallback, notWatch>>

\* unwatch: *self.callback_path.lock() = None; then unwatch returns, to its
\* caller or into the rest of watch().
UnwatchClearPath ==
    /\ ctl.pc = "u_path"
    /\ cbPathLock = Free
    /\ callback_path' = "none"
    /\ ctl' = [ctl EXCEPT !.pc = CASE ctl.op = "watch" -> "w_create"
                                   [] ctl.op = "drop" -> "gone"
                                   [] OTHER -> "idle"]
    /\ UNCHANGED <<watcher, watched_path, callback, shutdown_tx, last_event_time,
                   events, cbPathLock, spawned, dpc, waited, evq, evTx, shq,
                   fsWatch, watchRet, sinceEvent, burstLen, burstFires, earlyFire,
                   cancelled, lastCallback, notWatch>>

\* watch: RecommendedWatcher::new(..) fails; `?` returns the error.
WatchCreateFails ==
    /\ ctl.pc = "w_create"
    /\ watchRet' = "Err"
    /\ ctl' = [ctl EXCEPT !.pc = "idle"]
    /\ UNCHANGED <<watcher, watched_path, callback, shutdown_tx, last_event_time,
                   events, callback_path, cbPathLock, spawned, dpc, waited,
                   evq, evTx, shq, fsWatch, sinceEvent, burstLen, burstFires,
                   earlyFire, cancelled, lastCallback, notWatch>>

\* watch: the watcher is created; callback_path is set under its lock, the
\* debounce thread is spawned, self.watcher and self.shutdown_tx are stored.
WatchSpawn ==
    /\ ctl.pc = "w_create"
    /\ cbPathLock = Free
    /\ LET g == spawned + 1 IN
        /\ spawned' = g
        /\ callback_path' = ctl.path
        /\ dpc' = [dpc EXCEPT ![g] = "recv"]
        /\ waited' = [waited EXCEPT ![g] = 0]
        /\ evTx' = [evTx EXCEPT ![g] = TRUE]
        /\ watcher' = g
        /\ shutdown_tx' = g
    /\ ctl' = [ctl EXCEPT !.pc = "w_start"]
    /\ UNCHANGED <<watched_path, callback, last_event_time, events,
                   cbPathLock, evq, shq, fsWatch, watchRet, sinceEvent, burstLen,
                   burstFires, earlyFire, cancelled, lastCallback, notWatch>>

\* watch: w.watch(path, Recursive) fails; `?` returns the error.
WatchStartFails ==
    /\ ctl.pc = "w_start"
    /\ watchRet' = "Err"
    /\ ctl' = [ctl EXCEPT !.pc = "idle"]
    /\ UNCHANGED <<watcher, watched_path, callback, shutdown_tx, last_event_time,
                   events, callback_path, cbPathLock, spawned, dpc, waited,
                   evq, evTx, shq, fsWatch, sinceEvent, burstLen, burstFires,
                   earlyFire, cancelled, lastCallback, notWatch>>

\* watch: w.watch(path, Recursive) succeeds; watched_path and callback are
\* stored and watch returns Ok(()).
WatchStartOk ==
    /\ ctl.pc = "w_start"
    /\ fsWatch' = [fsWatch EXCEPT ![watcher] = ctl.path]
    /\ watched_path' = ctl.path
    /\ callback' = watcher
    /\ watchRet' = "Ok"
    /\ ctl' = [ctl EXCEPT !.pc = "idle"]
    /\ UNCHANGED <<watcher, shutdown_tx, last_event_time, events,
                   callback_path, cbPathLock, spawned, dpc, waited, evq, evTx, shq,
                   sinceEvent, burstLen, burstFires, earlyFire, cancelled,
                   lastCallback, notWatch>>

\* ---- the watcher's event closure (runs on the notify thread) ----

\* Mutant of IsChange: every event and every error counts as a change.
IsChangeAny(kind) == TRUE

\* Whether an event of this kind counts as a change.
IsChange(kind) == kind \in {"Modify", "Create"}

\* The closure handed to RecommendedWatcher::new, called with an event of
\* this kind (or an error) for watcher g.
EventClosure(g, kind) ==
    /\ evTx[g] /\ fsWatch[g] # "none"
    /\ IF IsChange(kind)
       THEN /\ events < MaxEvents
            /\ events' = events + 1
            /\ last_event_time' = 0
            /\ evq' = [evq EXCEPT ![g] = @ + 1]
            /\ sinceEvent' = 0
            /\ burstLen' = IF sinceEvent # NoTime /\ sinceEvent < DEBOUNCE_MS
                           THEN Min(burstLen + 1, MaxEvents) ELSE 1
            /\ burstFires' = IF sinceEvent # NoTime /\ sinceEvent < DEBOUNCE_MS
                             THEN burstFires ELSE 0
            /\ cancelled' = FALSE
       ELSE UNCHANGED <<last_event_time, evq, events, sinceEvent, burstLen,
                        burstFires, cancelled>>
    /\ UNCHANGED <<watcher, watched_path, callback, shutdown_tx,
                   callback_path, cbPathLock, spawned, dpc, waited, evTx, shq,
                   fsWatch, ctl, watchRet, earlyFire, lastCallback>>

\* The OS reports something for the registered path of watcher g.
FsEvent(g, kind) == EventClosure(g, kind) /\ UNCHANGED notWatch

\* The same delivery, with the kind of the event on record.
NothingSeen == [change |-> FALSE, ignored |-> FALSE]
FsEventSeen(g, kind) ==
    /\ EventClosure(g, kind)
    /\ ev_seen' = IF kind \in {"Modify", "Create"}
                  THEN [ev_seen EXCEPT !.change = TRUE]
                  ELSE [ev_seen EXCEPT !.ignored = TRUE]
    /\ UNCHANGED notKind

\* ---- the debounce thread of watch generation g ----

\* The end of a loop iteration: if shutdown_rx.try_recv().is_ok() { break },
\* else back into rx.recv_timeout.
EndIteration(g) ==
    IF shq[g] > 0
    THEN /\ shq' = [shq EXCEPT ![g] = @ - 1]
         /\ dpc' = [dpc EXCEPT ![g] = "done"]
         /\ UNCHANGED waited
    ELSE /\ dpc' = [dpc EXCEPT ![g] = "recv"]
         /\ waited' = [waited EXCEPT ![g] = 0]
         /\ UNCHANGED shq

\* rx.recv_timeout(100 ms) returns Ok(_path): the event was already recorded
\* in last_event_time; nothing to do but the shutdown check.
RecvOk(g) ==
    /\ dpc[g] = "recv" /\ evq[g] > 0
    /\ evq' = [evq EXCEPT ![g] = @ - 1]
    /\ EndIteration(g)
    /\ UNCHANGED <<watcher, watched_path, callback, shutdown_tx, last_event_time,
                   events, callback_path, cbPathLock, spawned, evTx, fsWatch, ctl,
                   watchRet, sinceEvent, burstLen, burstFires, earlyFire,
                   cancelled, lastCallback, notWatch>>

\* instant.elapsed() > Duration::from_millis(DEBOUNCE_MS)
Expired(age) == age > DEBOUNCE_MS

\* Mutant of AfterReload: the timestamp is left in place after a reload.
AfterReloadKept(age) == age

\* *last_time = None, once a reload has been decided.
AfterReload(age) == NoTime

\* rx.recv_timeout(100 ms) returns Err(Timeout): the block computing
\* should_reload runs as one critical section of the last_event_time mutex
\* (no holder of that mutex keeps it across a blocking call); without a reload
\* the iteration ends with the shutdown check.
RecvTimeout(g) ==
    /\ dpc[g] = "recv" /\ evq[g] = 0 /\ evTx[g]
    /\ waited[g] >= POLL_MS
    /\ IF last_event_time # NoTime /\ Expired(last_event_time)
       THEN /\ last_event_time' = AfterReload(last_event_time)
            /\ dpc' = [dpc EXCEPT ![g] = "get_path"]
            /\ burstFires' = Min(burstFires + 1, 2)
            /\ earlyFire' = (earlyFire \/ sinceEvent = NoTime
                                       \/ sinceEvent <= DEBOUNCE_MS)
            /\ UNCHANGED <<shq, waited>>
       ELSE /\ EndIteration(g)
            /\ UNCHANGED <<last_event_time, burstFires, earlyFire>>
    /\ UNCHANGED <<watcher, watched_path, callback, shutdown_tx, callback_path,
                   cbPathLock, spawned, evq, events, evTx, fsWatch, ctl, watchRet,
                   sinceEvent, burstLen, cancelled, lastCallback, notWatch>>

\* rx.recv_timeout(100 ms) returns Err(Disconnected): break
RecvDisconnected(g) ==
    /\ dpc[g] = "recv" /\ evq[g] = 0 /\ ~evTx[g]
    /\ dpc' = [dpc EXCEPT ![g] = "done"]
    /\ UNCHANGED <<watcher, watched_path, callback, shutdown_tx, last_event_time,
                   events, callback_path, cbPathLock, spawned, waited, evq,
                   evTx, shq, fsWatch, ctl, watchRet, sinceEvent, burstLen,
                   burstFires, earlyFire, cancelled, lastCallback, notWatch>>

\* Mutant of PathGuardAfterClone: the callback_path guard lives on while the
\* callback runs.
PathGuardHeld(g) == g

\* let path = callback_path.lock().clone().unwrap_or_default(): the guard is a
\* temporary, dropped at the end of the statement.
PathGuardAfterClone(g) == Free

\* should_reload: read the path under the callback_path lock, call callback(path)
InvokeCallback(g) ==
    /\ dpc[g] = "get_path"
    /\ cbPathLock = Free
    /\ cbPathLock' = PathGuardAfterClone(g)
    /\ lastCallback' = [gen |-> g,
                        path |-> IF callback_path = "none" THEN EmptyPath
                                 ELSE callback_path]
    /\ dpc' = [dpc EXCEPT ![g] = "callback"]
    /\ UNCHANGED <<watcher, watched_path, callback, shutdown_tx, last_event_time,
                   events, callback_path, spawned, waited, evq, evTx, shq,
                   fsWatch, ctl, watchRet, sinceEvent, burstLen, burstFires,
                   earlyFire, cancelled, notWatch>>

\* callback(path) returns; the iteration ends with the shutdown check.
CallbackReturns(g) ==
    /\ dpc[g] = "callback"
    /\ cbPathLock' = IF cbPathLock = g THEN Free ELSE cbPathLock
    /\ EndIteration(g)
    /\ UNCHANGED <<watcher, watched_path, callback, shutdown_tx, last_event_time,
                   events, callback_path, spawned, evq, evTx, fsWatch, ctl,
                   watchRet, sinceEvent, burstLen, burstFires, earlyFire,
                   cancelled, lastCallback, notWatch>>

\* Time passes: every Instant grows older, every recv_timeout waits on.
Tick ==
    /\ last_event_time' = Older(last_event_time)
    /\ sinceEvent' = Older(sinceEvent)
    /\ waited' = [g \in Gens |->
                    IF dpc[g] = "recv" THEN Min(waited[g] + TICK_MS, POLL_MS)
                    ELSE waited[g]]
    /\ UNCHANGED <<watcher, watched_path, callback, shutdown_tx, events,
                   callback_path, cbPathLock, spawned, dpc, evq, evTx, shq,
                   fsWatch, ctl, watchRet, burstLen, burstFires, earlyFire,
                   cancelled, lastCallback, notWatch>>

CtlContinue ==
    \/ UnwatchRelease
    \/ UnwatchClearTime
    \/ UnwatchClearPath
    \/ WatchSpawn
    \/ WatchStartOk

DebounceStep(g) ==
    \/ RecvOk(g)
    \/ RecvTimeout(g)
    \/ RecvDisconnected(g)
    \/ InvokeCallback(g)

WatchNext ==
    \/ CallWatch
    \/ CallUnwatch
    \/ CallDrop
    \/ UnwatchRelease
    \/ UnwatchClearTime
    \/ UnwatchClearPath
    \/ WatchCreateFails
    \/ WatchSpawn
    \/ WatchStartFails
    \/ WatchStartOk
    \/ \E g \in Gens : \E kind \in EventKinds : FsEvent(g, kind)
    \/ \E g \in Gens : RecvOk(g)
    \/ \E g \in Gens : RecvTimeout(g)
    \/ \E g \in Gens : RecvDisconnected(g)
    \/ \E g \in Gens : InvokeCallback(g)
    \/ \E g \in Gens : CallbackReturns(g)
    \/ Tick

\* The watcher with the kinds of the delivered events on record.
WatchKindsNext ==
    \/ CallWatch
    \/ CallUnwatch
    \/ CallDrop
    \/ UnwatchRelease
    \/ UnwatchClearTime
    \/ UnwatchClearPath
    \/ WatchCreateFails
    \/ WatchSpawn
    \/ WatchStartFails
    \/ WatchStartOk
    \/ \E g \in Gens : \E kind \in EventKinds : FsEventSeen(g, kind)
    \/ \E g \in Gens : RecvOk(g)
    \/ \E g \in Gens : RecvTimeout(g)
    \/ \E g \in Gens : RecvDisconnected(g)
    \/ \E g \in Gens : InvokeCallback(g)
    \/ \E g \in Gens : CallbackReturns(g)
    \/ Tick

KindParked == ev_seen = NothingSeen

(***************************************************************************)
(*                               PLUGIN HOST                               *)
(***************************************************************************)

\* Bound of the plugin-host model: plugin instances created in a run.
MaxInstances == 3

HostPaths == {"a.clap", "b.clap"}
PluginTypes == {"Effect", "Instrument"}
LoadErrors == {"instantiate failed", "init failed"}

\* enum PluginState, one record shape for the five variants (a field a
\* variant does not carry is empty).
Unloaded == [status |-> "Unloaded", path |-> "", has_editor |-> FALSE, message |-> ""]
Loading(path) ==
    [status |-> "Loading", path |-> path, has_editor |-> FALSE, message |-> ""]
Active(path, has_editor) ==
    [status |-> "Active", path |-> path, has_editor |-> has_editor, message |-> ""]
Error(message) ==
    [status |-> "Error", path |-> "", has_editor |-> FALSE, message |-> message]
Reloading(path) ==
    [status |-> "Reloading", path |-> path, has_editor |-> FALSE, message |-> ""]

\* Mutant of InitialPluginState: the host starts out in Error.
InitialPluginStateError == Error("init failed")

\* PluginHostState::new: state: RwLock::new(PluginState::Unloaded)
InitialPluginState == Unloaded

\* The resources a load or reload must not touch when it fails.
Resources ==
    [plugin |-> host_plugin, plugin_type |-> host_plugin_type,
     auto_reload |-> host_auto_reload, watched_path |-> host_watched_path]

\* PluginHostState::new()
HostInit ==
    /\ host_state = InitialPluginState
    /\ host_plugin = 0
    /\ host_plugin_type = "Effect"
    /\ host_auto_reload = FALSE
    /\ host_watched_path = "none"
    /\ instances = 0
    /\ crashedInsts = {}
    /\ attemptPre = [plugin |-> 0, plugin_type |-> "Effect",
                     auto_reload |-> FALSE, watched_path |-> "none"]
    /\ host_ev = "new"

\* A load request: Unloaded -> Loading{path}
LoadRequest ==
    /\ host_state.status = "Unloaded"
    /\ instances < MaxInstances
    /\ \E path \in HostPaths : host_state' = Loading(path)
    /\ attemptPre' = Resources
    /\ host_ev' = "load_request"
    /\ UNCHANGED <<host_plugin, host_plugin_type, host_auto_reload,
                   host_watched_path, instances, crashedInsts, notHost>>

\* The instance is created and initialised: Loading -> Active, or
\* Reloading -> Active with the previous instance torn down first.
AttemptSucceeds ==
    /\ host_state.status \in {"Loading", "Reloading"}
    /\ instances' = instances + 1
    /\ host_plugin' = instances + 1
    /\ \E e \in BOOLEAN : host_state' = Active(host_state.path, e)
    /\ \E t \in PluginTypes : host_plugin_type' = t
    /\ host_ev' = IF host_state.status = "Loading" THEN "load_ok" ELSE "reload_ok"
    /\ UNCHANGED <<host_auto_reload, host_watched_path, crashedInsts, attemptPre,
                   notHost>>

\* Mutant of ResourcesAfterFailure: a failed attempt drops the loaded instance.
ResourcesDropped(r) == [r EXCEPT !.plugin = 0]

\* A failed attempt leaves the previous state's resources untouched.
ResourcesAfterFailure(r) == r

\* Instantiation or initialisation fails: Loading -> Error, Reloading -> Error.
AttemptFails ==
    /\ host_state.status \in {"Loading", "Reloading"}
    /\ \E m \in LoadErrors : host_state' = Error(m)
    /\ LET r == ResourcesAfterFailure(Resources) IN
        /\ host_plugin' = r.plugin
        /\ host_plugin_type' = r.plugin_type
        /\ host_auto_reload' = r.auto_reload
        /\ host_watched_path' = r.watched_path
    /\ host_ev' = IF host_state.status = "Loading" THEN "load_failed"
                  ELSE "reload_failed"
    /\ UNCHANGED <<instances, crashedInsts, attemptPre, notHost>>

\* A hot reload, from the file watcher or a reload command: Active -> Reloading
ReloadRequest ==
    /\ host_state.status = "Active"
    /\ instances < MaxInstances
    /\ host_state' = Reloading(host_state.path)
    /\ attemptPre' = Resources
    /\ host_ev' = "reload_request"
    /\ UNCHANGED <<host_plugin, host_plugin_type, host_auto_reload,
                   host_watched_path, instances, crashedInsts, notHost>>

\* Explicit unload: Active -> Unloaded, Error -> Unloaded; the instance, if
\* any, is destroyed.
Unload ==
    /\ host_state.status \in {"Active", "Error"}
    /\ host_state' = Unloaded
    /\ host_plugin' = 0
    /\ host_ev' = "unload"
    /\ UNCHANGED <<host_plugin_type, host_auto_reload, host_watched_path,
                   instances, crashedInsts, attemptPre, notHost>>

\* Control-thread commands between attempts: enable/disable auto-reload, set
\* the watched path.
SetAutoReload ==
    /\ host_state.status \notin {"Loading", "Reloading"}
    /\ host_auto_reload' = ~host_auto_reload
    /\ host_ev' = "set"
    /\ UNCHANGED <<host_state, host_plugin, host_plugin_type, host_watched_path,
                   instances, crashedInsts, attemptPre, notHost>>

SetWatchedPath ==
    /\ host_state.status \notin {"Loading", "Reloading"}
    /\ \E w \in HostPaths \cup {"none"} :
        /\ w # host_watched_path
        /\ host_watched_path' = w
    /\ host_ev' = "set"
    /\ UNCHANGED <<host_state, host_plugin, host_plugin_type, host_auto_reload,
                   instances, crashedInsts, attemptPre, notHost>>

\* The producer thread may process a block through the instance.
MayProcess(inst) == host_state.status = "Active" /\ inst # 0

\* The guarded process call of a block returns Ok.
ProcessOk ==
    /\ MayProcess(host_plugin)
    /\ host_ev' = "process_ok"
    /\ UNCHANGED <<host_state, host_plugin, host_plugin_type, host_auto_reload,
                   host_watched_path, instances, crashedInsts, attemptPre, notHost>>

\* A crash is fatal to the instance: the host is forced to unload.
StateAfterCrash(st) == Unloaded

\* Mutant of PluginAfterCrash: the crashed instance is kept.
PluginAfterCrashKept(inst) == inst

\* The crashed instance is discarded.
PluginAfterCrash(inst) == 0

\* The guarded process call of a block returns Crashed(code).
ProcessCrashes ==
    /\ MayProcess(host_plugin)
    /\ crashedInsts' = crashedInsts \cup {host_plugin}
    /\ host_state' = StateAfterCrash(host_state)
    /\ host_plugin' = PluginAfterCrash(host_plugin)
    /\ host_ev' = "crash"
    /\ UNCHANGED <<host_plugin_type, host_auto_reload, host_watched_path,
                   instances, attemptPre, notHost>>

HostNext ==
    \/ LoadRequest
    \/ AttemptSucceeds
    \/ AttemptFails
    \/ ReloadRequest
    \/ Unload
    \/ SetAutoReload
    \/ SetWatchedPath
    \/ ProcessOk
    \/ ProcessCrashes

(***************************************************************************)
(*                              EDITOR WINDOW                              *)
(***************************************************************************)

\* The plugin's side of the GUI extension: whether get_extension returns the
\* extension at all, and which of its entry points are non-null.
GuiTables ==
    [ext : BOOLEAN, is_api_supported : BOOLEAN, create : BOOLEAN,
     set_parent : BOOLEAN, show : BOOLEAN, hide : BOOLEAN, destroy : BOOLEAN]

EdStart(gui) ==
    /\ ed_gui = gui
    /\ ed_step = 0
    /\ ed_window = "null"
    /\ ed_hwnd = "none"
    /\ ed_plugin_gui = "none"
    /\ ed_parent = "none"
    /\ ed_shown = FALSE
    /\ ed_calls = <<>>
    /\ ed_ret = "none"

EdInit == \E gui \in GuiTables : EdStart(gui)

EdParked ==
    EdStart([ext |-> FALSE, is_api_supported |-> FALSE, create |-> FALSE,
             set_parent |-> FALSE, show |-> FALSE, hide |-> FALSE,
             destroy |-> FALSE])

\* create_editor_window_at: the whole call.  The plugin's answers (API
\* supported, create, set_parent) and CreateWindowExW may each fail.
create_editor_window_at ==
    /\ ed_step = 0 /\ ed_ret = "none"
    /\ \E supported, created, windowed, parented \in BOOLEAN :
        IF ~ed_gui.ext \/ ~(ed_gui.is_api_supported /\ supported) \/ ~ed_gui.create
        THEN /\ ed_ret' = "Err"
             /\ ed_calls' = <<>>
             /\ UNCHANGED <<ed_hwnd, ed_plugin_gui, ed_parent, ed_shown>>
        ELSE IF ~created
        THEN /\ ed_ret' = "Err"
             /\ ed_calls' = <<"gui.create">>
             /\ UNCHANGED <<ed_hwnd, ed_plugin_gui, ed_parent, ed_shown>>
        ELSE IF ~windowed \/ ~ed_gui.set_parent
        THEN /\ ed_ret' = "Err"
             /\ ed_calls' = <<"gui.create">> \o
                    (IF windowed THEN <<"CreateWindowExW">> ELSE <<>>)
             /\ ed_hwnd' = IF windowed THEN "open" ELSE "none"
             /\ ed_plugin_gui' = "created"
             /\ UNCHANGED <<ed_parent, ed_shown>>
        ELSE IF ~parented
        THEN /\ ed_ret' = "Err"
             /\ ed_calls' = <<"gui.create", "CreateWindowExW", "gui.set_parent",
                              "DestroyWindow">> \o
                    (IF ed_gui.destroy THEN <<"gui.destroy">> ELSE <<>>)
             /\ ed_hwnd' = "destroyed"
             /\ ed_plugin_gui' = IF ed_gui.destroy THEN "destroyed" ELSE "created"
             /\ UNCHANGED <<ed_parent, ed_shown>>
        ELSE /\ ed_ret' = "Ok"
             /\ ed_calls' = <<"gui.create", "CreateWindowExW", "gui.set_parent">> \o
                    (IF ed_gui.show THEN <<"gui.show">> ELSE <<>>) \o
                    <<"ShowWindow">>
             /\ ed_hwnd' = "open"
             /\ ed_plugin_gui' = "created"
             /\ ed_parent' = "hwnd"
             /\ ed_shown' = ed_gui.show
    /\ UNCHANGED <<ed_gui, ed_step, ed_window, notEd>>

\* The statements of destroy_editor_window in program order: the plugin GUI
\* block (hide, unparent, destroy), then the Win32 window.
\* Mutant of TeardownOrder: the host window is destroyed before the plugin GUI.
TeardownOrderWindowFirst == <<"window", "hide", "unparent", "destroy">>

TeardownOrder == <<"hide", "unparent", "destroy", "window">>

\* The value of ed_step once every statement has run.
TeardownDone == Len(TeardownOrder) + 1

AtStep(name) ==
    /\ ed_step \in 1..Len(TeardownOrder)
    /\ TeardownOrder[ed_step] = name

\* destroy_editor_window(plugin, window) is called for the editor that
\* create_editor_window_at returned, with its window handle or a null one.
CallDestroyEditor ==
    /\ ed_step = 0 /\ ed_ret = "Ok"
    /\ \E w \in {"hwnd", "null"} : ed_window' = w
    /\ ed_calls' = <<>>
    /\ ed_step' = 1
    /\ UNCHANGED <<ed_gui, ed_hwnd, ed_plugin_gui, ed_parent, ed_shown, ed_ret,
                   notEd>>

\* if let Some(gui) = get_gui_extension(plugin): the three plugin calls are
\* made only inside this block.
HasGui == ed_gui.ext

\* if let Some(hide) = (*gui).hide { hide(plugin) }
DestroyHide ==
    /\ AtStep("hide")
    /\ IF HasGui /\ ed_gui.hide
       THEN /\ ed_calls' = Append(ed_calls, "gui.hide")
            /\ ed_shown' = FALSE
       ELSE UNCHANGED <<ed_calls, ed_shown>>
    /\ ed_step' = ed_step + 1
    /\ UNCHANGED <<ed_gui, ed_window, ed_hwnd, ed_plugin_gui, ed_parent, ed_ret,
                   notEd>>

\* if let Some(set_parent) = (*gui).set_parent { set_parent(plugin, &null_window) }
DestroyUnparent ==
    /\ AtStep("unparent")
    /\ IF HasGui /\ ed_gui.set_parent
       THEN /\ ed_calls' = Append(ed_calls, "gui.set_parent(null)")
            /\ ed_parent' = "null"
       ELSE UNCHANGED <<ed_calls, ed_parent>>
    /\ ed_step' = ed_step + 1
    /\ UNCHANGED <<ed_gui, ed_window, ed_hwnd, ed_plugin_gui, ed_shown, ed_ret,
                   notEd>>

\* if let Some(destroy) = (*gui).destroy { destroy(plugin) }
DestroyGui ==
    /\ AtStep("destroy")
    /\ IF HasGui /\ ed_gui.destroy
       THEN /\ ed_calls' = Append(ed_calls, "gui.destroy")
            /\ ed_plugin_gui' = "destroyed"
       ELSE UNCHANGED <<ed_calls, ed_plugin_gui>>
    /\ ed_step' = ed_step + 1
    /\ UNCHANGED <<ed_gui, ed_window, ed_hwnd, ed_parent, ed_shown, ed_ret, notEd>>

\* if !window.is_null() { DestroyWindow(hwnd) }
DestroyHostWindow ==
    /\ AtStep("window")
    /\ IF ed_window # "null"
       THEN /\ ed_calls' = Append(ed_calls, "DestroyWindow")
            /\ ed_hwnd' = "destroyed"
       ELSE UNCHANGED <<ed_calls, ed_hwnd>>
    /\ ed_step' = ed_step + 1
    /\ UNCHANGED <<ed_gui, ed_window, ed_plugin_gui, ed_parent, ed_shown, ed_ret,
                   notEd>>

EdNext ==
    \/ create_editor_window_at
    \/ CallDestroyEditor
    \/ DestroyHide
    \/ DestroyUnparent
    \/ DestroyGui
    \/ DestroyHostWindow

(***************************************************************************)
(*                 SAMPLE PLAYER (audio/samples.rs)                        *)
(***************************************************************************)

MaxFrames == 2
MaxPlayed == 5

\* f32 1.0 in the model's fixed-point unit: speeds and fractional positions
\* are multiples of 0.1.
FracUnit == 10

\* ratio.max(0.1).min(4.0)
MIN_SPEED == 1
MAX_SPEED == 40

\* f32 values handed to set_speed_ratio: NaN, the infinities and finite
\* values (in units of 1/FracUnit).
F32_INFINITY == 1000000
F32(v) == [nan |-> FALSE, val |-> v]
F32_NAN == [nan |-> TRUE, val |-> 0]
RatioInputs ==
    {F32_NAN, F32(F32_INFINITY), F32(0 - F32_INFINITY)}
        \cup {F32(v) : v \in {0, 5, 10, 100}}

\* f32::max and f32::min: if one argument is NaN the other is returned.
f32_max(a, b) ==
    IF a.nan THEN b ELSE IF b.nan THEN a ELSE IF a.val >= b.val THEN a ELSE b

f32_min(a, b) ==
    IF a.nan THEN b ELSE IF b.nan THEN a ELSE IF a.val <= b.val THEN a ELSE b

\* Mutant of ClampRatio: only the upper limit is applied.
ClampRatioNoFloor(ratio) == f32_min(ratio, F32(MAX_SPEED))

ClampRatio(ratio) == f32_min(f32_max(ratio, F32(MIN_SPEED)), F32(MAX_SPEED))

StereoSample(l, r) == [left |-> l, right |-> r]
StereoSilence == StereoSample(0, 0)

\* Decoded frames: two distinct ones, neither of them silent.
FrameSet == {StereoSample(1, 0 - 1), StereoSample(2, 0 - 2)}
SampleData == UNION {[1..n -> FrameSet] : n \in 0..MaxFrames}

NoRun == 0 - 1

\* AudioSample::get_sample(position), position counted from 0.
get_sample(data, position) ==
    IF position < Len(data) THEN data[position + 1] ELSE StereoSilence

\* A stored frame as next_sample returns it when it is not blended.
Exact(frame) == StereoSample(frame.left * FracUnit, frame.right * FracUnit)

\* current * (1.0 - frac) + next * frac, per channel.
Interpolate(current, next, frac) ==
    StereoSample(current.left * (FracUnit - frac) + next.left * frac,
                 current.right * (FracUnit - frac) + next.right * frac)

\* SamplePlayer::new()
SamplePlayerNew ==
    /\ sp_sample = None
    /\ sp_position = 0
    /\ sp_is_playing = FALSE
    /\ sp_is_looping = TRUE
    /\ sp_speed_ratio = FracUnit
    /\ sp_fractional_position = 0
    /\ sp_out = StereoSilence
    /\ sp_op = "new"
    /\ sp_ended = FALSE
    /\ sp_unloaded_at_end = FALSE
    /\ sp_run = 0

SpInit == SamplePlayerNew
SpParked == SamplePlayerNew

load_sample ==
    \E data \in SampleData :
        /\ sp_sample' = Some(data)
        /\ sp_position' = 0
        /\ sp_fractional_position' = 0
        /\ sp_op' = "load_sample"
        /\ sp_ended' = FALSE
        /\ sp_unloaded_at_end' = FALSE
        /\ sp_run' = 0
        /\ UNCHANGED <<sp_is_playing, sp_is_looping, sp_speed_ratio, sp_out, notSp>>

unload ==
    /\ sp_sample' = None
    /\ sp_position' = 0
    /\ sp_is_playing' = FALSE
    /\ sp_op' = "unload"
    /\ sp_ended' = FALSE
    /\ sp_unloaded_at_end' = (sp_ended \/ sp_unloaded_at_end)
    /\ sp_run' = NoRun
    /\ UNCHANGED <<sp_is_looping, sp_speed_ratio, sp_fractional_position, sp_out,
                   notSp>>

\* Mutant of play: playback is started from the beginning.
play_from_start ==
    /\ sp_is_playing' = TRUE
    /\ sp_position' = 0
    /\ sp_fractional_position' = 0
    /\ sp_op' = "play"
    /\ UNCHANGED <<sp_sample, sp_is_looping, sp_speed_ratio, sp_out, sp_ended, sp_run,
                   sp_unloaded_at_end, notSp>>

play ==
    /\ sp_is_playing' = TRUE
    /\ sp_op' = "play"
    /\ UNCHANGED <<sp_sample, sp_position, sp_is_looping, sp_speed_ratio,
                   sp_fractional_position, sp_out, sp_ended, sp_run,
                   sp_unloaded_at_end, notSp>>

stop ==
    /\ sp_is_playing' = FALSE
    /\ sp_position' = 0
    /\ sp_fractional_position' = 0
    /\ sp_op' = "stop"
    /\ sp_ended' = FALSE
    /\ sp_unloaded_at_end' = FALSE
    /\ sp_run' = 0
    /\ UNCHANGED <<sp_sample, sp_is_looping, sp_speed_ratio, sp_out, notSp>>

\* Mutant of pause: the fraction of the current frame is dropped.
pause_on_frame ==
    /\ sp_is_playing' = FALSE
    /\ sp_fractional_position' = 0
    /\ sp_op' = "pause"
    /\ UNCHANGED <<sp_sample, sp_position, sp_is_looping, sp_speed_ratio, sp_out,
                   sp_ended, sp_run, sp_unloaded_at_end, notSp>>

pause ==
    /\ sp_is_playing' = FALSE
    /\ sp_op' = "pause"
    /\ UNCHANGED <<sp_sample, sp_position, sp_is_looping, sp_speed_ratio,
                   sp_fractional_position, sp_out, sp_ended, sp_run,
                   sp_unloaded_at_end, notSp>>

set_looping ==
    \E looping \in BOOLEAN :
        /\ sp_is_looping' = looping
        /\ sp_op' = "set_looping"
        /\ sp_ended' = (sp_ended /\ ~looping)
        /\ sp_unloaded_at_end' = (sp_unloaded_at_end /\ ~looping)
        /\ UNCHANGED <<sp_sample, sp_position, sp_is_playing, sp_speed_ratio,
                       sp_fractional_position, sp_out, sp_run, notSp>>

set_speed_ratio ==
    \E ratio \in RatioInputs :
        /\ sp_speed_ratio' = ClampRatio(ratio).val
        /\ sp_op' = "set_speed_ratio"
        /\ UNCHANGED <<sp_sample, sp_position, sp_is_playing, sp_is_looping,
                       sp_fractional_position, sp_out, sp_ended, sp_run,
                   sp_unloaded_at_end, notSp>>

\* Mutant of EndReached: the end is found two frames late.
EndReachedTwoLate(position, len) == position > len + 1

\* Mutant of EndReached: the end is found one frame late.
EndReachedLate(position, len) == position > len

\* if self.position >= sample.data.len()
EndReached(position, len) == position >= len

\* Mutant of PlayingAfterEnd: the player keeps playing past the end.
PlayingAfterEndKept == TRUE

\* self.is_playing = false, at the end of a sample that does not loop
PlayingAfterEnd == FALSE

\* The run counted by sp_run goes on while next_sample is called on a playing,
\* looping player at speed 1.0.
RunAfterCall ==
    IF sp_run # NoRun /\ sp_is_playing /\ sp_sample # None /\ sp_is_looping
       /\ sp_speed_ratio = FracUnit
    THEN sp_run + 1
    ELSE NoRun

\* SamplePlayer::next_sample()
SamplePlayer_next_sample ==
    /\ sp_run < MaxPlayed
    /\ sp_op' = "next_sample"
    /\ sp_run' = RunAfterCall
    /\ IF ~sp_is_playing \/ sp_sample = None
       THEN /\ sp_out' = StereoSilence
            /\ UNCHANGED <<sp_position, sp_fractional_position, sp_is_playing,
                           sp_ended>>
       ELSE LET data == sp_sample[1]
                atEnd == EndReached(sp_position, Len(data))
            IN  IF atEnd /\ ~sp_is_looping
                THEN /\ sp_is_playing' = PlayingAfterEnd
                     /\ sp_out' = StereoSilence
                     /\ sp_ended' = TRUE
                     /\ UNCHANGED <<sp_position, sp_fractional_position>>
                ELSE LET pos == IF atEnd THEN 0 ELSE sp_position
                         frac == IF atEnd THEN 0 ELSE sp_fractional_position
                         sum == frac + sp_speed_ratio
                     IN  /\ sp_out' = Interpolate(get_sample(data, pos),
                                                   get_sample(data, pos + 1), frac)
                         /\ sp_fractional_position' = sum % FracUnit
                         /\ sp_position' = pos + (sum \div FracUnit)
                         /\ UNCHANGED <<sp_is_playing, sp_ended>>
    /\ UNCHANGED <<sp_sample, sp_is_looping, sp_speed_ratio, sp_unloaded_at_end,
                   notSp>>

SpNext ==
    \/ load_sample
    \/ unload
    \/ play
    \/ stop
    \/ pause
    \/ set_looping
    \/ set_speed_ratio
    \/ SamplePlayer_next_sample

(***************************************************************************)
(*                 SIGNAL GENERATOR (audio/signals.rs)                     *)
(*                                                                         *)
(* Rates are scaled down: the generator runs at SAMPLE_RATE samples per    *)
(* second, so that phases are multiples of 1/SAMPLE_RATE.  Sample values   *)
(* are in units of 1/SampleUnit, amplitudes in units of 1/AmpUnit, gate    *)
(* rates in units of 1/RateUnit and duties in units of 1/DutyUnit.         *)
(***************************************************************************)

MaxPinkIndex == 9
MaxRun == 20
MaxImpulseRun == 9

SAMPLE_RATE == 8
SampleUnit == 1000
AmpUnit == 2
RateUnit == 10
DutyUnit == 10

SignalTypes == {"Sine", "Square", "WhiteNoise", "PinkNoise", "Impulse", "Sweep"}
GatePatterns == {"Continuous", "Pulse", "Quarter", "Eighth", "Sixteenth"}

Max(a, b) == IF a > b THEN a ELSE b
Abs(a) == IF a < 0 THEN 0 - a ELSE a

\* SignalConfig::default(), with the frequencies scaled to SAMPLE_RATE.
DefaultConfig ==
    [signal_type |-> "Sine", frequency |-> 1, amplitude |-> AmpUnit \div 2,
     sweep_start |-> 1, sweep_end |-> 3, sweep_duration |-> 1,
     gate_pattern |-> "Continuous", gate_rate |-> 2 * RateUnit,
     gate_duty |-> DutyUnit \div 2]

\* Configurations handed to set_config when the waveforms are examined.
WaveConfigs ==
    {[DefaultConfig EXCEPT !.signal_type = t, !.amplitude = AmpUnit] :
        t \in SignalTypes}

\* Configurations handed to set_config when the gate is examined.
GateConfigs ==
    {[DefaultConfig EXCEPT !.amplitude = AmpUnit, !.gate_pattern = g,
                           !.gate_rate = r * RateUnit] :
        g \in GatePatterns, r \in {1, 2, 3}}

\* rng.gen_range(-1.0..1.0): the lower end and the last value below the
\* excluded upper end.
RandVals == {0 - SampleUnit, SampleUnit - 1}

\* (x * 2.0 * PI).sin() for x = p / SAMPLE_RATE.
SinTable == <<0, 707, 1000, 707, 0, 0 - 707, 0 - 1000, 0 - 707>>
sin_turns(p) == SinTable[(p % SAMPLE_RATE) + 1]

\* Frequencies handed to set_frequency: below the sample rate and one and a
\* half times the sample rate.
Frequencies == {1, 3, SAMPLE_RATE + SAMPLE_RATE \div 2}

\* The oscillators are followed up to this phase (three turns).
PhaseCap == 3 * SAMPLE_RATE

\* The next_sample calls made and the impulses emitted since the phase was
\* reset, while the waveform is Impulse and the frequency has not changed
\* after the first call; BrokenRun once it has.
FreshRun == [calls |-> 0, impulses |-> 0]
BrokenRun == [calls |-> NoRun, impulses |-> 0]
ImpulseRunAfter(fired) ==
    IF sg_impulse_run = BrokenRun THEN BrokenRun
    ELSE [calls |-> sg_impulse_run.calls + 1,
          impulses |-> sg_impulse_run.impulses + (IF fired THEN 1 ELSE 0)]

\* if self.phase >= 1.0 { self.phase -= 1.0 }
WrapPhase(p) == IF p >= SAMPLE_RATE THEN p - SAMPLE_RATE ELSE p

\* SignalGenerator::new(sample_rate)
SignalGeneratorNew ==
    /\ sg_config = DefaultConfig
    /\ sg_phase = 0
    /\ sg_sweep_phase = 0
    /\ sg_gate_phase = 0
    /\ sg_pink_rows = [i \in 0..15 |-> 0]
    /\ sg_pink_running_sum = 0
    /\ sg_pink_index = 0
    /\ sg_out = StereoSilence
    /\ sg_gate = 1
    /\ sg_op = "new"
    /\ sg_n = 0
    /\ sg_impulse_run = FreshRun

SgInit == SignalGeneratorNew
SgParked == SignalGeneratorNew

\* An operation that returns no sample.
NothingReturned ==
    /\ sg_out' = StereoSilence
    /\ sg_gate' = 1

set_config(config) ==
    /\ sg_config' = config
    /\ sg_phase' = 0
    /\ sg_sweep_phase' = 0
    /\ sg_gate_phase' = 0
    /\ sg_op' = "set_config"
    /\ NothingReturned
    /\ sg_n' = 0
    /\ sg_impulse_run' = FreshRun
    /\ UNCHANGED <<sg_pink_rows, sg_pink_running_sum, sg_pink_index, notSg>>

set_gate_pattern ==
    \E pattern \in GatePatterns :
        /\ sg_config' = [sg_config EXCEPT !.gate_pattern = pattern]
        /\ sg_gate_phase' = 0
        /\ sg_op' = "set_gate_pattern"
        /\ NothingReturned
        /\ sg_n' = 0
        /\ UNCHANGED <<sg_phase, sg_sweep_phase, sg_pink_rows, sg_pink_running_sum,
                       sg_pink_index, sg_impulse_run, notSg>>

\* rate.max(0.1)
set_gate_rate ==
    \E rate \in {0, RateUnit, 2 * RateUnit, 3 * RateUnit} :
        /\ sg_config' = [sg_config EXCEPT !.gate_rate = Max(rate, RateUnit \div 10)]
        /\ sg_op' = "set_gate_rate"
        /\ NothingReturned
        /\ sg_n' = NoRun
        /\ UNCHANGED <<sg_phase, sg_sweep_phase, sg_gate_phase, sg_pink_rows,
                       sg_pink_running_sum, sg_pink_index, sg_impulse_run, notSg>>

\* duty.clamp(0.1, 1.0)
set_gate_duty ==
    \E duty \in {0, DutyUnit \div 2, DutyUnit, 2 * DutyUnit} :
        /\ sg_config' = [sg_config EXCEPT
                            !.gate_duty = Min(Max(duty, DutyUnit \div 10), DutyUnit)]
        /\ sg_op' = "set_gate_duty"
        /\ NothingReturned
        /\ sg_n' = NoRun
        /\ UNCHANGED <<sg_phase, sg_sweep_phase, sg_gate_phase, sg_pink_rows,
                       sg_pink_running_sum, sg_pink_index, sg_impulse_run, notSg>>

set_frequency ==
    \E frequency \in Frequencies :
        /\ sg_config' = [sg_config EXCEPT !.frequency = frequency]
        /\ sg_op' = "set_frequency"
        /\ NothingReturned
        /\ sg_impulse_run' = IF sg_impulse_run = FreshRun \/ frequency = sg_config.frequency
                             THEN sg_impulse_run
                             ELSE BrokenRun
        /\ UNCHANGED <<sg_phase, sg_sweep_phase, sg_gate_phase, sg_pink_rows,
                       sg_pink_running_sum, sg_pink_index, sg_n, notSg>>

\* amplitude.clamp(0.0, 1.0)
set_amplitude ==
    \E amplitude \in (0 - 1)..(AmpUnit + 1) :
        /\ sg_config' = [sg_config EXCEPT !.amplitude = Min(Max(amplitude, 0), AmpUnit)]
        /\ sg_op' = "set_amplitude"
        /\ NothingReturned
        /\ UNCHANGED <<sg_phase, sg_sweep_phase, sg_gate_phase, sg_pink_rows,
                       sg_pink_running_sum, sg_pink_index, sg_n, sg_impulse_run,
                       notSg>>

\* SignalGenerator::reset()
reset ==
    /\ sg_phase' = 0
    /\ sg_sweep_phase' = 0
    /\ sg_gate_phase' = 0
    /\ sg_op' = "reset"
    /\ NothingReturned
    /\ sg_n' = 0
    /\ sg_impulse_run' = FreshRun
    /\ UNCHANGED <<sg_config, sg_pink_rows, sg_pink_running_sum, sg_pink_index,
                   notSg>>

\* What a generate_* function returns and leaves in the generator.
Generated(sample, phase, sweep_phase, rows, sum, index) ==
    [sample |-> sample, phase |-> phase, sweep_phase |-> sweep_phase,
     rows |-> rows, sum |-> sum, index |-> index]

Oscillator(sample, phase, sweep_phase) ==
    Generated(sample, phase, sweep_phase, sg_pink_rows, sg_pink_running_sum,
              sg_pink_index)

generate_sine ==
    Oscillator(sin_turns(sg_phase), WrapPhase(sg_phase + sg_config.frequency),
               sg_sweep_phase)

\* (if self.phase < 0.5 { 1.0 } else { -1.0 }) * 0.8
generate_square ==
    Oscillator(IF 2 * sg_phase < SAMPLE_RATE
               THEN (8 * SampleUnit) \div 10
               ELSE 0 - ((8 * SampleUnit) \div 10),
               WrapPhase(sg_phase + sg_config.frequency), sg_sweep_phase)

generate_white_noise(white) == Oscillator(white, sg_phase, sg_sweep_phase)

\* usize::trailing_zeros, capped: (0usize).trailing_zeros() is the bit width.
RECURSIVE trailing_zeros(_)
trailing_zeros(i) ==
    IF i = 0 THEN 64 ELSE IF i % 2 = 1 THEN 0 ELSE 1 + trailing_zeros(i \div 2)

\* The spacing of the f32 values around x, in units of 1/SampleUnit.  A unit
\* stands for the spacing of the random draws, 2^-22: with the 24 significant
\* bits of f32 every count of units below 4.0 is a value, every second one
\* from 4.0 to 8.0, every fourth one from 8.0 to 16.0, every eighth above.
f32_spacing(x) ==
    IF Abs(x) < 4 * SampleUnit THEN 1
    ELSE IF Abs(x) < 8 * SampleUnit THEN 2
    ELSE IF Abs(x) < 16 * SampleUnit THEN 4
    ELSE 8

\* The f32 result of an operation whose exact result is x: the nearest value,
\* and of two equally near ones the one with the even significand.
f32_round(x) ==
    LET g == f32_spacing(x)
        q == x \div g
        r == x - g * q
    IN  IF 2 * r < g THEN g * q
        ELSE IF 2 * r > g THEN g * (q + 1)
        ELSE IF q % 2 = 0 THEN g * q ELSE g * (q + 1)

\* Voss-McCartney: one row is redrawn, and (running sum + white) / 5.0 returned.
\* `pink_running_sum -= old row` and `pink_running_sum += new row` are two f32
\* operations.
generate_pink_noise(row, white) ==
    LET num_zeros == Min(trailing_zeros(sg_pink_index), 15)
        sum == f32_round(f32_round(sg_pink_running_sum - sg_pink_rows[num_zeros])
                            + row)
    IN  Generated((sum + white) \div 5, sg_phase, sg_sweep_phase,
                  [sg_pink_rows EXCEPT ![num_zeros] = row], sum, sg_pink_index + 1)

\* self.phase counts samples here: one impulse every
\* sample_rate / max(frequency, 0.1) samples.
generate_impulse ==
    LET impulse_rate == Max(sg_config.frequency * RateUnit, RateUnit \div 10)
        count == (sg_phase \div SAMPLE_RATE) + 1
    IN  IF count * impulse_rate >= SAMPLE_RATE * RateUnit
        THEN Oscillator(SampleUnit, 0, sg_sweep_phase)
        ELSE Oscillator(0, count * SAMPLE_RATE, sg_sweep_phase)

\* The frequency exp(ln start + (ln end - ln start) * progress): start at
\* progress 0, end at progress 1 and some frequency between them otherwise.
SweepFreqs(progress_num, progress_den) ==
    IF progress_num = 0 THEN {sg_config.sweep_start}
    ELSE IF progress_num >= progress_den THEN {sg_config.sweep_end}
    ELSE Min(sg_config.sweep_start, sg_config.sweep_end)
            ..Max(sg_config.sweep_start, sg_config.sweep_end)

generate_sweep(current_freq) ==
    LET looped == sg_sweep_phase >= SAMPLE_RATE * sg_config.sweep_duration
    IN  Oscillator(sin_turns(sg_phase), WrapPhase(sg_phase + current_freq),
                   IF looped THEN 0 ELSE sg_sweep_phase + 1)

\* The base samples next_sample can get for the configured signal type.
BaseSamples ==
    CASE sg_config.signal_type = "Sine" -> {generate_sine}
      [] sg_config.signal_type = "Square" -> {generate_square}
      [] sg_config.signal_type = "WhiteNoise" ->
            {generate_white_noise(w) : w \in RandVals}
      [] sg_config.signal_type = "PinkNoise" ->
            {generate_pink_noise(r, w) : r \in RandVals, w \in RandVals}
      [] sg_config.signal_type = "Impulse" -> {generate_impulse}
      [] sg_config.signal_type = "Sweep" ->
            {generate_sweep(f) :
                f \in SweepFreqs(sg_sweep_phase,
                                 SAMPLE_RATE * sg_config.sweep_duration)}

\* cycle_samples as the fraction num / den.
CycleSamples ==
    IF sg_config.gate_pattern = "Pulse"
    THEN [num |-> SAMPLE_RATE * RateUnit, den |-> sg_config.gate_rate]
    ELSE LET bpm == Max(sg_config.gate_rate, 20 * RateUnit)
             subdivisions == CASE sg_config.gate_pattern = "Eighth" -> 2
                               [] sg_config.gate_pattern = "Sixteenth" -> 4
                               [] OTHER -> 1
         IN  [num |-> SAMPLE_RATE * 60 * RateUnit, den |-> bpm * subdivisions]

\* if self.gate_phase >= cycle_samples { self.gate_phase = 0.0 }
GatePhaseAfterCycle(gate_phase) == 0

\* SignalGenerator::calculate_gate(): the multiplier and the new gate phase.
calculate_gate ==
    IF sg_config.gate_pattern = "Continuous"
    THEN [gate |-> 1, gate_phase |-> sg_gate_phase]
    ELSE LET cycle == CycleSamples
             on == sg_gate_phase * cycle.den * DutyUnit
                       < sg_config.gate_duty * cycle.num
             next == sg_gate_phase + 1
         IN  [gate |-> IF on THEN 1 ELSE 0,
              gate_phase |-> IF next * cycle.den >= cycle.num
                             THEN GatePhaseAfterCycle(next)
                             ELSE next]

\* SignalGenerator::next_sample()
SignalGenerator_next_sample ==
    /\ sg_pink_index < MaxPinkIndex \/ sg_config.signal_type # "PinkNoise"
    /\ sg_n < MaxRun
    /\ sg_impulse_run.calls < MaxImpulseRun
    /\ sg_phase < PhaseCap \/ sg_config.signal_type = "Impulse"
    /\ \E base \in BaseSamples :
        LET g == calculate_gate
            value == base.sample * sg_config.amplitude * g.gate
        IN  /\ sg_out' = StereoSample(value, value)
            /\ sg_gate' = g.gate
            /\ sg_gate_phase' = g.gate_phase
            /\ sg_phase' = base.phase
            /\ sg_sweep_phase' = base.sweep_phase
            /\ sg_pink_rows' = base.rows
            /\ sg_pink_running_sum' = base.sum
            /\ sg_pink_index' = base.index
            /\ sg_impulse_run' = IF sg_config.signal_type = "Impulse"
                                 THEN ImpulseRunAfter(base.sample = SampleUnit)
                                 ELSE sg_impulse_run
    /\ sg_op' = "next_sample"
    /\ sg_n' = IF sg_n # NoRun /\ sg_config.gate_pattern # "Continuous"
               THEN sg_n + 1
               ELSE NoRun
    /\ UNCHANGED <<sg_config, notSg>>

\* The waveforms: any configuration, any amplitude.
SgWaveNext ==
    \/ \E config \in WaveConfigs : set_config(config)
    \/ set_frequency
    \/ set_amplitude
    \/ reset
    \/ SignalGenerator_next_sample

\* The gate: any pattern, rate and duty.
SgGateNext ==
    \/ \E config \in GateConfigs : set_config(config)
    \/ set_gate_pattern
    \/ set_gate_rate
    \/ set_gate_duty
    \/ SignalGenerator_next_sample

(***************************************************************************)
(*                 OUTPUT DEVICE CONFIGURATION (audio/device.rs)           *)
(***************************************************************************)

MaxConfigs == 2

\* Sample-rate ranges, channel counts and buffer sizes the device and the
\* caller may name.
RateRanges ==
    {[min |-> 44100, max |-> 48000], [min |-> 48000, max |-> 48000],
     [min |-> 96000, max |-> 96000]}
DeviceChannels == {1, 2, 6}
PreferredRates == {22050, 44100, 48000}
PreferredChannels == {1, 2, 6}
PreferredBufferSizes == {256, 512}

\* cpal::SupportedStreamConfigRange, as far as get_supported_config reads it.
SupportedConfigs ==
    {[min_sample_rate |-> r.min, max_sample_rate |-> r.max, channels |-> c] :
        r \in RateRanges, c \in DeviceChannels}

\* device.supported_output_configs(): an error or the configurations in order.
QueryError == [ok |-> FALSE, configs |-> <<>>]
SupportedAnswers ==
    {QueryError}
        \cup {[ok |-> TRUE, configs |-> l] :
                l \in UNION {[1..n -> SupportedConfigs] : n \in 0..MaxConfigs}}

\* device.default_output_config(): an error or the default configuration.
NoDefault == [ok |-> FALSE, sample_rate |-> 0, channels |-> 0]
DefaultAnswers ==
    {NoDefault}
        \cup {[ok |-> TRUE, sample_rate |-> r, channels |-> c] :
                r \in {44100, 48000}, c \in DeviceChannels}

Devices == [supported : SupportedAnswers, default_config : DefaultAnswers]

AudioConfigs ==
    [sample_rate : PreferredRates, channels : PreferredChannels,
     buffer_size : PreferredBufferSizes]

\* cpal::BufferSize
BufferSizeDefault == [fixed |-> FALSE, size |-> 0]
BufferSizeFixed(n) == [fixed |-> TRUE, size |-> n]

\* Result<cpal::StreamConfig, String>
OkConfig(channels, sample_rate, buffer_size) ==
    [ok |-> TRUE, channels |-> channels, sample_rate |-> sample_rate,
     buffer_size |-> buffer_size, err |-> ""]
ErrConfig(message) ==
    [ok |-> FALSE, channels |-> 0, sample_rate |-> 0,
     buffer_size |-> BufferSizeDefault, err |-> message]

NoResult == ErrConfig("not called")

\* The condition of the loop body.
Matches(config, preferred) ==
    /\ preferred.sample_rate >= config.min_sample_rate
    /\ preferred.sample_rate <= config.max_sample_rate
    /\ config.channels >= preferred.channels

\* Mutant of FallbackChannels: the default channel count is passed through.
FallbackChannelsUncapped(channels) == channels

\* default_config.channels().min(2)
FallbackChannels(channels) == Min(channels, 2)

\* The loop over supported_configs from position i on, then the fallback.
RECURSIVE ScanConfigs(_, _, _, _)
ScanConfigs(configs, i, default_config, preferred) ==
    IF i > Len(configs)
    THEN IF default_config.ok
         THEN OkConfig(FallbackChannels(default_config.channels),
                       default_config.sample_rate, BufferSizeDefault)
         ELSE ErrConfig("Failed to get default config")
    ELSE IF Matches(configs[i], preferred)
         THEN OkConfig(preferred.channels, preferred.sample_rate,
                       BufferSizeFixed(preferred.buffer_size))
         ELSE ScanConfigs(configs, i + 1, default_config, preferred)

get_supported_config(device, preferred) ==
    IF ~device.supported.ok
    THEN ErrConfig("Failed to get supported configs")
    ELSE ScanConfigs(device.supported.configs, 1, device.default_config, preferred)

DevStart(device, preferred) ==
    /\ dev_device = device
    /\ dev_preferred = preferred
    /\ dev_result = NoResult
    /\ dev_op = "none"

DevInit == \E device \in Devices, preferred \in AudioConfigs : DevStart(device, preferred)

DevParked ==
    DevStart([supported |-> QueryError, default_config |-> NoDefault],
             [sample_rate |-> 44100, channels |-> 2, buffer_size |-> 512])

\* A call get_supported_config(&device, &preferred).
CallGetSupportedConfig ==
    /\ dev_op = "none"
    /\ dev_result' = get_supported_config(dev_device, dev_preferred)
    /\ dev_op' = "get_supported_config"
    /\ UNCHANGED <<dev_device, dev_preferred, notDev>>

DevNext == CallGetSupportedConfig

(***************************************************************************)
(*                SAMPLE LOADING (audio/samples.rs, AudioSample::load)     *)
(***************************************************************************)

\* Bound: the packets the container delivers before its stream ends.
MaxPackets == 2

\* A decoded audio buffer: its frames, each with the values of channel 0 and
\* channel 1 (a mono buffer has channel 0 only; c1 is then not read).
DecodedFrame(c0, c1) == [c0 |-> c0, c1 |-> c1]
DecodedBuffers ==
    {<<DecodedFrame(1, 2)>>, <<DecodedFrame(3, 4), DecodedFrame(5, 6)>>}

\* What format.next_packet() delivers and what decoder.decode makes of it: a
\* packet of the selected or of another track; decoded, refused with
\* Error::DecodeError, or failing with another error.
LdPacket(track, decode, buf) == [track |-> track, decode |-> decode, buf |-> buf]
Packets ==
    {LdPacket("selected", "ok", b) : b \in DecodedBuffers}
        \cup {LdPacket("selected", "decode_error", <<>>),
              LdPacket("selected", "other_error", <<>>)}
        \cup {LdPacket("other", "ok", b) : b \in DecodedBuffers}

PacketLists == UNION {[1..n -> Packets] : n \in 0..MaxPackets}

\* How far load gets before the decoding loop.
LdStages ==
    {"open_fails", "probe_fails", "no_track", "no_sample_rate",
     "no_decoder", "decodes"}

\* A file: the first step that fails (if any), the track's codec parameters
\* (channels 0: not given), the packets, and what next_packet answers after
\* the last of them: Error::IoError(UnexpectedEof) or another error.
LdFile(stage, sample_rate, channels, packets, end) ==
    [stage |-> stage, sample_rate |-> sample_rate, channels |-> channels,
     packets |-> packets, end |-> end]

Files ==
    {LdFile(stage, 44100, 2, <<>>, "eof") : stage \in LdStages \ {"decodes"}}
        \cup {LdFile("decodes", r, c, l, e) :
                r \in {44100, 48000}, c \in {0, 1, 2}, l \in PacketLists,
                e \in {"eof", "format_error"}}

\* Result<AudioSample, String>
LdOk(sample_rate, channels, data) ==
    [ok |-> TRUE, err |-> "", sample_rate |-> sample_rate, channels |-> channels,
     num_samples |-> Len(data), data |-> data]
LdErr(message) ==
    [ok |-> FALSE, err |-> message, sample_rate |-> 0, channels |-> 0,
     num_samples |-> 0, data |-> <<>>]

\* append_audio_buffer: one StereoSample per frame; the right value is channel
\* 1 when the track has more than one channel, the left value otherwise.
append_audio_buffer(buf, channels) ==
    [i \in 1..Len(buf) |->
        StereoSample(buf[i].c0, IF channels > 1 THEN buf[i].c1 ELSE buf[i].c0)]

\* Mutant of SkippedError: a refused packet ends the load like any other error.
SkippedNever(decode) == FALSE

\* Err(Error::DecodeError(_)) => continue
SkippedError(decode) == decode = "decode_error"

\* The decoding loop from packet i on, with the samples collected so far.
RECURSIVE DecodeFrom(_, _, _, _)
DecodeFrom(file, channels, i, samples) ==
    IF i > Len(file.packets)
    THEN IF file.end = "eof"
         THEN LdOk(file.sample_rate, channels, samples)
         ELSE LdErr("Format error")
    ELSE LET packet == file.packets[i] IN
         IF packet.track # "selected"
         THEN DecodeFrom(file, channels, i + 1, samples)
         ELSE IF packet.decode = "ok"
         THEN DecodeFrom(file, channels, i + 1,
                         samples \o append_audio_buffer(packet.buf, channels))
         ELSE IF SkippedError(packet.decode)
         THEN DecodeFrom(file, channels, i + 1, samples)
         ELSE LdErr("Decode error")

\* AudioSample::load(path)
AudioSample_load(file) ==
    CASE file.stage = "open_fails" -> LdErr("Failed to open file")
      [] file.stage = "probe_fails" -> LdErr("Failed to probe format")
      [] file.stage = "no_track" -> LdErr("No audio track found")
      [] file.stage = "no_sample_rate" -> LdErr("Unknown sample rate")
      [] file.stage = "no_decoder" -> LdErr("Failed to create decoder")
      [] OTHER -> DecodeFrom(file, IF file.channels = 0 THEN 2 ELSE file.channels,
                             1, <<>>)

LdStart(file) ==
    /\ ld_file = file
    /\ ld_result = LdErr("not called")
    /\ ld_op = "none"

LdInit == \E file \in Files : LdStart(file)

LdParked == LdStart(LdFile("open_fails", 44100, 2, <<>>, "eof"))

\* A call AudioSample::load(path).
CallLoad ==
    /\ ld_op = "none"
    /\ ld_result' = AudioSample_load(ld_file)
    /\ ld_op' = "load"
    /\ UNCHANGED <<ld_file, notLd>>

LdNext == CallLoad

(***************************************************************************)
(*                      DEVICE LAYER (audio/device.rs)                     *)
(***************************************************************************)

\* Bound: the output devices the host enumerates.
MaxDevices == 2

\* What a device answers to supported_output_configs and default_output_config.
LayerAnswers ==
    {[supported |-> QueryError, default_config |-> NoDefault],
     [supported |-> [ok |-> TRUE, configs |-> <<>>], default_config |-> NoDefault],
     [supported |-> [ok |-> TRUE, configs |-> <<>>],
      default_config |-> [ok |-> TRUE, sample_rate |-> 48000, channels |-> 2]]}

\* A device of the host: what name() answers (an error, or the name) and the
\* answers to the configuration queries.
HostDevice(name_ok, name, answers) ==
    [name_ok |-> name_ok, name |-> name, answers |-> answers]
HostDevices ==
    {HostDevice(TRUE, n, a) : n \in {"Speakers", "Headphones"}, a \in LayerAnswers}
        \cup {HostDevice(FALSE, "", a) : a \in LayerAnswers}

\* cpal::default_host(): whether output_devices() succeeds, the devices it
\* yields in order, and which of them default_output_device() returns (0: none).
Hosts ==
    UNION {[enumerate_ok : BOOLEAN, devices : [1..n -> HostDevices], default : 0..n] :
            n \in 0..MaxDevices}

\* Option<&str>
NoName == [some |-> FALSE, name |-> ""]
SomeName(n) == [some |-> TRUE, name |-> n]
NameArgs == {NoName, SomeName("Speakers"), SomeName("Headphones"), SomeName("Missing")}

\* What a call of the device layer came to: Ok with its value (a device list,
\* a device, a sample rate or a stream configuration), Err with its message,
\* or a panic.
DlRes(kind, err, infos, device, rate, config) ==
    [kind |-> kind, err |-> err, infos |-> infos, device |-> device,
     rate |-> rate, config |-> config]
DlOkInfos(infos) == DlRes("Ok", "", infos, 0, 0, NoResult)
DlOkDevice(i) == DlRes("Ok", "", <<>>, i, 0, NoResult)
DlOkRate(r) == DlRes("Ok", "", <<>>, 0, r, NoResult)
DlOkConfig(c) == DlRes("Ok", "", <<>>, 0, 0, c)
DlErr(message) == DlRes("Err", message, <<>>, 0, 0, NoResult)
DlPanic == DlRes("Panic", "", <<>>, 0, 0, NoResult)

AudioDeviceInfo(name, is_default) == [name |-> name, is_default |-> is_default]

\* The loop of list_output_devices from device i on: devices whose name()
\* fails are left out.
RECURSIVE ListFrom(_, _)
ListFrom(host, i) ==
    IF i > Len(host.devices) THEN <<>>
    ELSE LET device == host.devices[i]
             has_default_name ==
                 host.default # 0 /\ host.devices[host.default].name_ok
         IN  IF device.name_ok
             THEN <<AudioDeviceInfo(device.name,
                        has_default_name
                            /\ device.name = host.devices[host.default].name)>>
                    \o ListFrom(host, i + 1)
             ELSE ListFrom(host, i + 1)

list_output_devices(host) ==
    IF ~host.enumerate_ok
    THEN DlErr("Failed to enumerate devices")
    ELSE DlOkInfos(ListFrom(host, 1))

\* Mutant of MissingDefault: the Option is unwrapped.
MissingDefaultUnwrapped == DlPanic

\* .ok_or_else(|| "No default output device found".to_string())
MissingDefault == DlErr("No default output device found")

get_default_output_device(host) ==
    IF host.default = 0 THEN MissingDefault ELSE DlOkDevice(host.default)

\* The loop of get_output_device from device i on.
RECURSIVE FindFrom(_, _, _)
FindFrom(host, device_name, i) ==
    IF i > Len(host.devices)
    THEN DlErr("Device '" \o device_name \o "' not found")
    ELSE IF host.devices[i].name_ok /\ host.devices[i].name = device_name
         THEN DlOkDevice(i)
         ELSE FindFrom(host, device_name, i + 1)

get_output_device(host, name) ==
    IF name.some
    THEN IF ~host.enumerate_ok
         THEN DlErr("Failed to enumerate devices")
         ELSE FindFrom(host, name.name, 1)
    ELSE get_default_output_device(host)

get_default_sample_rate(host) ==
    LET device == get_default_output_device(host) IN
        IF device.kind # "Ok" THEN device
        ELSE LET config == host.devices[device.device].answers.default_config IN
             IF config.ok THEN DlOkRate(config.sample_rate)
             ELSE DlErr("Failed to get default config")

\* get_supported_config(&device, &preferred) as a call of the layer.
SupportedConfigOf(answers, preferred) ==
    LET config == get_supported_config(answers, preferred) IN
        IF config.ok THEN DlOkConfig(config) ELSE DlErr(config.err)

DlCall(name, arg, device) == [name |-> name, arg |-> arg, device |-> device]
DlNoCall == DlCall("none", NoName, 0)

DlStart(host) ==
    /\ dl_host = host
    /\ dl_op = DlNoCall
    /\ dl_result = DlErr("not called")

DlInit == \E host \in Hosts : DlStart(host)

DlParked == DlStart([enumerate_ok |-> FALSE, devices |-> <<>>, default |-> 0])

CallListOutputDevices ==
    /\ dl_op = DlNoCall
    /\ dl_op' = DlCall("list_output_devices", NoName, 0)
    /\ dl_result' = list_output_devices(dl_host)
    /\ UNCHANGED <<dl_host, notDl>>

CallGetDefaultOutputDevice ==
    /\ dl_op = DlNoCall
    /\ dl_op' = DlCall("get_default_output_device", NoName, 0)
    /\ dl_result' = get_default_output_device(dl_host)
    /\ UNCHANGED <<dl_host, notDl>>

CallGetOutputDevice ==
    /\ dl_op = DlNoCall
    /\ \E name \in NameArgs :
        /\ dl_op' = DlCall("get_output_device", name, 0)
        /\ dl_result' = get_output_device(dl_host, name)
    /\ UNCHANGED <<dl_host, notDl>>

CallGetDefaultSampleRate ==
    /\ dl_op = DlNoCall
    /\ dl_op' = DlCall("get_default_sample_rate", NoName, 0)
    /\ dl_result' = get_default_sample_rate(dl_host)
    /\ UNCHANGED <<dl_host, notDl>>

\* get_supported_config on one of the host's devices, with AudioConfig::default().
CallSupportedConfigOf ==
    /\ dl_op = DlNoCall
    /\ \E i \in 1..Len(dl_host.devices) :
        /\ dl_op' = DlCall("get_supported_config", NoName, i)
        /\ dl_result' = SupportedConfigOf(dl_host.devices[i].answers,
                                          [sample_rate |-> 44100, channels |-> 2,
                                           buffer_size |-> 512])
    /\ UNCHANGED <<dl_host, notDl>>

DlNext ==
    \/ CallListOutputDevices
    \/ CallGetDefaultOutputDevice
    \/ CallGetOutputDevice
    \/ CallGetDefaultSampleRate
    \/ CallSupportedConfigOf

(***************************************************************************)
(*          PLUGIN_HOST_STATE (audio/plugin/mod.rs, once_cell OnceCell)    *)
(***************************************************************************)

\* Bound: the calls of init_plugin_host and get_plugin_host_state made by the
\* threads together.
MaxHostCalls == 3

HostThreads == 1..MaxThreads

\* PluginHostState::new(): the fields of a new instance.
PluginHostStateNew ==
    [state |-> InitialPluginState, plugin |-> 0, plugin_type |-> "Effect",
     auto_reload |-> FALSE, watched_path |-> "none"]

NoInstance ==
    [state |-> Error("no instance"), plugin |-> 0, plugin_type |-> "none",
     auto_reload |-> FALSE, watched_path |-> "none"]

\* The cell: empty, with an initialiser running, or set to the instance made
\* by the n-th PluginHostState::new() call.
OcCell(state, value) == [state |-> state, value |-> value]

\* What a call returned: the instance (0: None), and how many init_plugin_host
\* calls had been started and had returned when the call was made.
OcRet(op, val, started, returned) ==
    [op |-> op, val |-> val, started |-> started, returned |-> returned]

OcStart ==
    /\ oc_cell = OcCell("empty", 0)
    /\ oc_pc = [t \in HostThreads |-> "idle"]
    /\ oc_ret = [t \in HostThreads |-> OcRet("none", 0, 0, 0)]
    /\ oc_created = 0
    /\ oc_instance = NoInstance
    /\ oc_calls = [made |-> 0, started |-> 0, returned |-> 0]

OcInit == OcStart
OcParked == OcStart

\* Thread t calls init_plugin_host().
CallInitPluginHost(t) ==
    /\ oc_pc[t] = "idle" /\ oc_calls.made < MaxHostCalls
    /\ oc_pc' = [oc_pc EXCEPT ![t] = "get_or_init"]
    /\ oc_calls' = [oc_calls EXCEPT !.made = @ + 1, !.started = @ + 1]
    /\ oc_ret' = [oc_ret EXCEPT ![t] = OcRet("none", 0, 0, 0)]
    /\ UNCHANGED <<oc_cell, oc_created, oc_instance, notOc>>

\* Mutant of MayInitialize: any caller that finds the cell not yet set runs
\* the initialiser.
MayInitializeUnset(state) == state # "set"

\* OnceCell::get_or_init runs the closure in the one caller that finds the
\* cell empty; callers that arrive while it runs wait for it.
MayInitialize(state) == state = "empty"

\* PLUGIN_HOST_STATE.get_or_init(..) on thread t finds the cell set and
\* returns its value.
GetOrInitFound(t) ==
    /\ oc_pc[t] = "get_or_init" /\ oc_cell.state = "set"
    /\ oc_pc' = [oc_pc EXCEPT ![t] = "idle"]
    /\ oc_ret' = [oc_ret EXCEPT ![t] = OcRet("init", oc_cell.value, 0, 0)]
    /\ oc_calls' = [oc_calls EXCEPT !.returned = @ + 1]
    /\ UNCHANGED <<oc_cell, oc_created, oc_instance, notOc>>

\* PLUGIN_HOST_STATE.get_or_init(..) on thread t takes on the initialisation.
GetOrInitClaims(t) ==
    /\ oc_pc[t] = "get_or_init" /\ MayInitialize(oc_cell.state)
    /\ oc_cell' = OcCell("running", 0)
    /\ oc_pc' = [oc_pc EXCEPT ![t] = "new"]
    /\ UNCHANGED <<oc_ret, oc_created, oc_instance, oc_calls, notOc>>

\* The closure || Arc::new(PluginHostState::new()) runs on thread t, the cell
\* is set to its value and init_plugin_host returns it.
InitializerRuns(t) ==
    /\ oc_pc[t] = "new"
    /\ oc_created' = oc_created + 1
    /\ oc_instance' = PluginHostStateNew
    /\ oc_cell' = OcCell("set", oc_created + 1)
    /\ oc_pc' = [oc_pc EXCEPT ![t] = "idle"]
    /\ oc_ret' = [oc_ret EXCEPT ![t] = OcRet("init", oc_created + 1, 0, 0)]
    /\ oc_calls' = [oc_calls EXCEPT !.returned = @ + 1]
    /\ UNCHANGED notOc

\* Thread t calls get_plugin_host_state(): PLUGIN_HOST_STATE.get().cloned()
get_plugin_host_state(t) ==
    /\ oc_pc[t] = "idle" /\ oc_calls.made < MaxHostCalls
    /\ oc_ret' = [oc_ret EXCEPT ![t] =
                    OcRet("get", IF oc_cell.state = "set" THEN oc_cell.value ELSE 0,
                          oc_calls.started, oc_calls.returned)]
    /\ oc_calls' = [oc_calls EXCEPT !.made = @ + 1]
    /\ UNCHANGED <<oc_cell, oc_pc, oc_created, oc_instance, notOc>>

OcNext ==
    \E t \in HostThreads :
        \/ CallInitPluginHost(t)
        \/ GetOrInitFound(t)
        \/ GetOrInitClaims(t)
        \/ InitializerRuns(t)
        \/ get_plugin_host_state(t)

(***************************************************************************)
(*         WINDOW CLASS REGISTRATION (audio/plugin/editor/windows.rs)      *)
(*                                                                         *)
(* ensure_window_class_registered, called from several threads.  Each      *)
(* access to the atomic flag and each Win32 call is one step.              *)
(***************************************************************************)

MaxRegisterCalls == 3

ClassThreads == 1..MaxThreads

WcStart ==
    /\ wc_flag = FALSE
    /\ wc_class = FALSE
    /\ wc_pc = [t \in ClassThreads |-> "idle"]
    /\ wc_ret = [t \in ClassThreads |-> "none"]
    /\ wc_calls = 0

WcInit == WcStart
WcParked == WcStart

LateParked == KindParked /\ WcParked

\* The call returns r.
WcReturns(t, r) ==
    /\ wc_ret' = [wc_ret EXCEPT ![t] = r]
    /\ wc_pc' = [wc_pc EXCEPT ![t] = "idle"]

\* A thread calls ensure_window_class_registered().
CallEnsureRegistered(t) ==
    /\ wc_pc[t] = "idle" /\ wc_calls < MaxRegisterCalls
    /\ wc_calls' = wc_calls + 1
    /\ wc_pc' = [wc_pc EXCEPT ![t] = "compare_exchange"]
    /\ wc_ret' = [wc_ret EXCEPT ![t] = "none"]
    /\ UNCHANGED <<wc_flag, wc_class, notWc>>

\* if WINDOW_CLASS_REGISTERED.compare_exchange(false, true, ..).is_err()
\*     { return Ok(()) }
CompareExchange(t) ==
    /\ wc_pc[t] = "compare_exchange"
    /\ IF wc_flag
       THEN /\ WcReturns(t, "Ok")
            /\ UNCHANGED wc_flag
       ELSE /\ wc_flag' = TRUE
            /\ wc_pc' = [wc_pc EXCEPT ![t] = "GetModuleHandleW"]
            /\ UNCHANGED wc_ret
    /\ UNCHANGED <<wc_class, wc_calls, notWc>>

\* GetModuleHandleW(null).map_err(..)?
GetModuleHandle(t) ==
    /\ wc_pc[t] = "GetModuleHandleW"
    /\ \E ok \in BOOLEAN :
        IF ok
        THEN wc_pc' = [wc_pc EXCEPT ![t] = "LoadCursorW"] /\ UNCHANGED wc_ret
        ELSE WcReturns(t, "Err")
    /\ UNCHANGED <<wc_flag, wc_class, wc_calls, notWc>>

\* LoadCursorW(None, IDC_ARROW).map_err(..)?
LoadCursor(t) ==
    /\ wc_pc[t] = "LoadCursorW"
    /\ \E ok \in BOOLEAN :
        IF ok
        THEN wc_pc' = [wc_pc EXCEPT ![t] = "RegisterClassExW"] /\ UNCHANGED wc_ret
        ELSE WcReturns(t, "Err")
    /\ UNCHANGED <<wc_flag, wc_class, wc_calls, notWc>>

\* let atom = RegisterClassExW(&wc); if atom == 0 { store(false); return Err }
\* Ok(()).  Registering a class that exists already fails.
RegisterClass(t) ==
    /\ wc_pc[t] = "RegisterClassExW"
    /\ \E atom \in IF wc_class THEN {0} ELSE {0, 1} :
        IF atom = 0
        THEN /\ wc_flag' = FALSE
             /\ WcReturns(t, "Err")
             /\ UNCHANGED wc_class
        ELSE /\ wc_class' = TRUE
             /\ WcReturns(t, "Ok")
             /\ UNCHANGED wc_flag
    /\ UNCHANGED <<wc_calls, notWc>>

WcNext ==
    \E t \in ClassThreads :
        \/ CallEnsureRegistered(t)
        \/ CompareExchange(t)
        \/ GetModuleHandle(t)
        \/ LoadCursor(t)
        \/ RegisterClass(t)

(***************************************************************************)
(*                   RING BUFFER: SPECIFICATION AND CLAIMS                 *)
(***************************************************************************)

\* The subsystems modelled on their own, at rest.
AuxParked == InsParked /\ LdParked /\ DlParked /\ OcParked /\ LateParked

\* The ring buffer in use; the other subsystems at rest.
InitBuffer == BufInit /\ GuardParked /\ WatchInit /\ HostInit /\ EdParked /\ SpParked /\ SgParked /\ DevParked
    /\ AuxParked

SpecBuffer ==
    /\ InitBuffer
    /\ [][BufNext]_vars

IsPop == bufOp.op \in {"pop", "pop_slice"}

\* C1: for every capacity and every interleaving of producer and consumer
\* calls, the consumer has never received more samples than the producer was
\* told were pushed, and a pop on an empty buffer yields no sample: pop
\* returns None and pop_slice returns 0.
C1_NeverMoreThanPushed ==
    /\ Len(poppedLog) <= Len(pushedLog)
    /\ (IsPop /\ bufOp.occ = 0) => (bufOp.ret = 0 /\ bufOp.got = None)

\* C1 witness: a pop came back empty after samples had been pushed and drained.
C1_Witness ==
    /\ bufOp.op = "pop" /\ bufOp.occ = 0 /\ bufOp.got = None
    /\ Len(poppedLog) > 0 /\ Len(poppedLog) = Len(pushedLog)

\* The step relation of C2: a producer call never overwrites. With v vacant
\* slots, a call offering n samples (push: n = 1) enqueues exactly the first
\* min(n, v) of them behind the samples already queued, which stay as they
\* were, and returns that count; push returns false (0) when v = 0.
C2_PushStep ==
    (bufOp'.op \in {"push", "push_slice"}) =>
        LET n == Len(bufOp'.arg)
            v == capacity - Len(Queued)
            k == Min(n, v) IN
            /\ bufOp'.ret = k
            /\ Queued' = Queued \o SubSeq(bufOp'.arg, 1, k)
            /\ Len(Queued') <= capacity
            /\ (v = 0 => bufOp'.ret = 0)

\* C2: every step of the ring buffer that is a producer call obeys C2_PushStep.
C2_NoOverwrite == [][C2_PushStep]_vars

\* C2 witness: a push_slice onto a partly filled ring was cut short.
C2_Witness ==
    /\ bufOp.op = "push_slice" /\ bufOp.occ > 0
    /\ bufOp.ret > 0 /\ bufOp.ret < Len(bufOp.arg)

\* C3 (as stated): on underrun the frames pop / pop_slice could not supply
\* come back as the silent sample: a pop on an empty buffer hands back no
\* stale value, and every entry of the output slice past the popped count is
\* Silence.
C3_UnderrunSilence ==
    /\ (bufOp.op = "pop" /\ bufOp.occ = 0) => bufOp.got \in {None, Some(Silence)}
    /\ (bufOp.op = "pop_slice") =>
            \A i \in (bufOp.ret + 1)..Len(bufOp.out) : bufOp.out[i] = Silence

\* C3 (amended): on underrun no sample is made up: pop returns None, and
\* pop_slice returns the count k = min(len, occupied) it dequeued and leaves
\* every output entry past k exactly as the caller passed it in.
C3_UnderrunUntouched ==
    /\ (bufOp.op = "pop" /\ bufOp.occ = 0) => bufOp.got = None
    /\ (bufOp.op = "pop_slice") =>
            /\ bufOp.ret = Min(Len(bufOp.arg), bufOp.occ)
            /\ Len(bufOp.out) = Len(bufOp.arg)
            /\ \A i \in (bufOp.ret + 1)..Len(bufOp.out) : bufOp.out[i] = bufOp.arg[i]

\* C3 witness: a pop_slice underran and a non-silent entry is left in the tail.
C3_Witness ==
    /\ bufOp.op = "pop_slice" /\ bufOp.ret < Len(bufOp.out)
    /\ bufOp.out[Len(bufOp.out)] # Silence

\* C28: the queue is first-in first-out without loss or duplication: what the
\* consumer has received, followed by what is still queued, is exactly the
\* sequence of accepted items in push order; so what was received is a prefix
\* of what was pushed.  create_command_buffer returns the two halves of the
\* same HeapRb, used through try_push and try_pop.
C28_Fifo ==
    /\ pushedLog = poppedLog \o Queued
    /\ Len(poppedLog) <= Len(pushedLog)
    /\ poppedLog = SubSeq(pushedLog, 1, Len(poppedLog))

\* C28 witness: more items than the ring has slots have gone through it, the
\* last two by one pop_slice, and they were not all the same.
C28_Witness ==
    /\ Len(poppedLog) > capacity /\ capacity > 1
    /\ bufOp.op = "pop_slice" /\ bufOp.ret = 2
    /\ \E i \in 2..Len(poppedLog) : poppedLog[i] # poppedLog[i - 1]

(***************************************************************************)
(*                   CRASH GUARD: SPECIFICATIONS AND CLAIMS                *)
(***************************************************************************)

\* The crash guard in use; the other subsystems at rest.
InitGuard == GuardInit /\ BufParked /\ WatchInit /\ HostInit /\ EdParked /\ SpParked /\ SgParked /\ DevParked
    /\ AuxParked

\* The producer thread alone: guarded calls one after the other, and faults of
\* its own code between them.
SpecGuard ==
    /\ InitGuard
    /\ [][GuardNext]_vars

\* The same with a second thread that can fault at any time.
SpecGuardMT ==
    /\ InitGuard
    /\ [][GuardNextMT]_vars

Returned == Len(guardLog) > 0
LastResult == guardLog[Len(guardLog)]

\* C4 (as stated): a closure that raises SIGABRT, SIGSEGV or SIGBUS makes
\* with_crash_guard return Crashed(that signal), and the process is still
\* running after the signal was caught.
C4_CrashReported ==
    /\ \A i \in 1..Len(guardLog) :
          guardLog[i].f.kind = "raise" =>
              (guardLog[i].kind = "Crashed" /\ guardLog[i].val = guardLog[i].f.v)
    /\ (lastSig.inGuard /\ HANDLERS_INSTALLED) => process = "running"

C6_NoJumpOutsideGuard == (~lastSig.inGuard) => lastSig.action # "jump"

\* C7: a closure that returns normally with value v is run exactly once and
\* with_crash_guard returns Ok(v), whatever the earlier calls returned.
C7_NormalIsOk ==
    \A i \in 1..Len(guardLog) :
        guardLog[i].f.kind = "return" =>
            /\ guardLog[i].kind = "Ok"
            /\ guardLog[i].val = guardLog[i].f.v
            /\ guardLog[i].fRuns = 1

\* C7 witness: a normal call returned Ok right after a call that crashed.
C7_Witness ==
    /\ Len(guardLog) >= 2
    /\ guardLog[Len(guardLog) - 1].kind = "Crashed"
    /\ LastResult.kind = "Ok" /\ LastResult.f.kind = "return"

InitInstall ==
    GuardInit /\ InsStart /\ BufParked /\ WatchInit /\ HostInit /\ EdParked
    /\ SpParked /\ SgParked /\ DevParked /\ LdParked /\ DlParked /\ OcParked
    /\ LateParked

SpecInstall ==
    /\ InitInstall
    /\ [][InsNext]_vars

\* C27: whatever the number of with_crash_guard calls and however their threads
\* interleave, the sigaction installation block is entered at most once, and
\* no saved previous handler is the crash guard's own handler.
C27_InstalledOnce ==
    /\ ins_runs <= 1
    /\ \A n \in AllSignalNumbers : PREV[n] # "crash_signal_handler"

\* C27 witness: one thread is in the middle of the three sigaction calls while
\* another has already come back from install_handlers, and a third call has
\* been made before.
C27_Witness ==
    /\ ins_calls = MaxInstallCalls /\ ins_runs = 1
    /\ \E t, u \in InstallThreads :
          /\ ins_pc[t] = InsAt("sigaction", 2)
          /\ ins_pc[u] = InsAt("guarded", 0)

(***************************************************************************)
(*                  PLUGIN WATCHER: SPECIFICATIONS AND CLAIMS              *)
(***************************************************************************)

\* The plugin watcher in use; the other subsystems at rest.
InitWatcher == WatchInit /\ BufParked /\ GuardParked /\ HostInit /\ EdParked /\ SpParked /\ SgParked /\ DevParked
    /\ AuxParked

SpecWatcher ==
    /\ InitWatcher
    /\ [][WatchNext]_vars

\* The scheduler runs every thread, time passes, and a reload callback that
\* has been called returns.
SpecWatcherLive ==
    /\ SpecWatcher
    /\ WF_vars(Tick)
    /\ WF_vars(CtlContinue)
    /\ \A g \in Gens : WF_vars(DebounceStep(g))
    /\ \A g \in Gens : WF_vars(CallbackReturns(g))

\* Only the thread that owns the PluginWatcher is sure to run: the debounce
\* threads may stall anywhere and a reload callback may never return.
SpecWatcherCtl ==
    /\ SpecWatcher
    /\ WF_vars(CtlContinue)

\* A burst has had no reload yet and has not been cancelled by unwatch.
BurstPending == sinceEvent # NoTime /\ burstFires = 0 /\ ~cancelled
BurstSettled == burstFires >= 1 \/ cancelled

\* C8: a burst of modify/create events, each less than DEBOUNCE_MS after the
\* previous one, followed by quiet, gets exactly one reload: never a second
\* one, never one before more than DEBOUNCE_MS has passed since the last
\* event, and (unless unwatch cancels it) eventually one.
C8_BurstReloadsOnce ==
    /\ [](~earlyFire /\ burstFires <= 1)
    /\ (BurstPending ~> BurstSettled)

\* A burst of several events has been answered by one reload callback, which
\* is executing.
C8_Witness ==
    /\ burstLen >= 2 /\ burstFires = 1 /\ ~cancelled
    /\ \E g \in Gens : dpc[g] = "callback" /\ lastCallback.gen = g

InUnwatch == ctl.pc \in {"u_release", "u_time", "u_path"}
UnwatchReturned == ctl.pc \in {"idle", "gone"} /\ ctl.op \in {"unwatch", "drop"}
Running(g) == dpc[g] \notin {"unspawned", "done"}

\* C9: once unwatch() (called explicitly or by drop) has returned, is_watching()
\* is false, watched_path() is None and no path is registered with the OS; and
\* a debounce thread whose watcher has been taken away eventually terminates.
C9_UnwatchStops ==
    /\ [](UnwatchReturned =>
            /\ ~is_watching
            /\ watched_path = "none"
            /\ \A g \in Gens : fsWatch[g] = "none")
    /\ \A g \in Gens : (Running(g) /\ watcher # g) ~> (dpc[g] = "done")

\* A successful watch has been unwatched and its debounce thread has ended.
C9_Witness ==
    /\ spawned = 1 /\ watchRet = "Ok"
    /\ ctl = [pc |-> "idle", op |-> "unwatch", path |-> "none"]
    /\ dpc[1] = "done"

\* C10: a call of unwatch() always returns, whatever the debounce threads do
\* and even if a reload callback never returns.
C10_UnwatchReturns == InUnwatch ~> ~InUnwatch

\* unwatch() has returned while the reload callback is still executing.
C10_Witness ==
    /\ ctl.pc = "idle" /\ ctl.op = "unwatch"
    /\ \E g \in Gens : dpc[g] = "callback"

\* A call has returned and generation g's watch is no longer the current one:
\* its watcher and its shutdown sender have been taken out of the PluginWatcher.
StoppedWatch(g) ==
    /\ dpc[g] # "unspawned"
    /\ watcher # g /\ shutdown_tx # g
    /\ ctl.pc \in {"idle", "gone"}

\* C24 (as stated): once unwatch() has returned, or watch() has replaced an
\* earlier watch, the debounce thread of the stopped watch never invokes the
\* reload callback again.
C24_NoCallbackAfterUnwatch ==
    [][\A g \in Gens :
          StoppedWatch(g) => ~(dpc[g] = "get_path" /\ dpc'[g] = "callback")]_vars

\* C25 (as stated): when watch() has returned Err, is_watching() is false,
\* watched_path() is None, and every debounce thread still running has been
\* told to stop (its shutdown message sent or its event channel closed).
C25_FailedWatchIsUnwatched ==
    (ctl.pc = "idle" /\ ctl.op = "watch" /\ watchRet = "Err") =>
        /\ ~is_watching
        /\ watched_path = "none"
        /\ \A g \in Gens : Running(g) => (shq[g] > 0 \/ ~evTx[g])

(***************************************************************************)
(*                   PLUGIN HOST: SPECIFICATION AND CLAIMS                 *)
(***************************************************************************)

\* The plugin host in use; the other subsystems at rest.
InitHost == HostInit /\ BufParked /\ GuardParked /\ WatchInit /\ EdParked /\ SpParked /\ SgParked /\ DevParked
    /\ AuxParked

SpecHost ==
    /\ InitHost
    /\ [][HostNext]_vars

AllowedTransitions ==
    {<<"Unloaded", "Loading">>, <<"Loading", "Active">>, <<"Loading", "Error">>,
     <<"Active", "Reloading">>, <<"Reloading", "Active">>,
     <<"Reloading", "Error">>, <<"Active", "Unloaded">>, <<"Error", "Unloaded">>}

C12_CrashedNeverProcessed ==
    /\ [](host_ev = "crash" =>
            host_state.status \in {"Error", "Unloaded"} /\ host_plugin = 0)
    /\ [](host_plugin \notin crashedInsts)
    /\ [][host_ev' \in {"process_ok", "crash"} => host_plugin \notin crashedInsts]_vars

\* After a crash a fresh instance has been loaded and has processed a block.
C12_Witness ==
    /\ crashedInsts # {} /\ host_ev = "process_ok"
    /\ host_plugin \notin crashedInsts

\* C13: right after a failed load or reload PluginState is Error with a
\* message and plugin, plugin type, auto-reload flag and watched path are
\* what they were when the attempt started.
C13_FailureKeepsResources ==
    host_ev \in {"load_failed", "reload_failed"} =>
        /\ host_state.status = "Error" /\ host_state.message # ""
        /\ Resources = attemptPre

\* A reload failed while an instance was loaded and a path was being watched.
C13_Witness ==
    /\ host_ev = "reload_failed" /\ host_plugin # 0
    /\ host_watched_path # "none" /\ host_auto_reload

(***************************************************************************)
(*                  EDITOR WINDOW: SPECIFICATION AND CLAIMS                *)
(***************************************************************************)

\* The editor window in use; the other subsystems at rest.
InitEditor == EdInit /\ BufParked /\ GuardParked /\ WatchInit /\ HostInit /\ SpParked /\ SgParked /\ DevParked
    /\ AuxParked

SpecEditor ==
    /\ InitEditor
    /\ [][EdNext]_vars

InTeardown == ed_step >= 1
TeardownFinished == ed_step = TeardownDone

IsPrefix(p, q) == Len(p) <= Len(q) /\ SubSeq(q, 1, Len(p)) = p

ExpectedTeardown(gui, window) ==
    (IF gui.ext /\ gui.hide THEN <<"gui.hide">> ELSE <<>>)
    \o (IF gui.ext /\ gui.set_parent THEN <<"gui.set_parent(null)">> ELSE <<>>)
    \o (IF gui.ext /\ gui.destroy THEN <<"gui.destroy">> ELSE <<>>)
    \o (IF window # "null" THEN <<"DestroyWindow">> ELSE <<>>)

InitPlayer ==
    SpInit /\ BufParked /\ GuardParked /\ WatchInit /\ HostInit /\ EdParked /\ SgParked
    /\ DevParked /\ AuxParked

SpecPlayer ==
    /\ InitPlayer
    /\ [][SpNext]_vars

\* The step is a call of next_sample that gets as far as the end check.
CallAtEnd ==
    /\ sp_op' = "next_sample"
    /\ sp_is_playing /\ sp_sample # None
    /\ sp_position >= Len(sp_sample[1])

C16_LoopExact ==
    (sp_op = "next_sample" /\ sp_run >= 1 /\ sp_sample # None
        /\ Len(sp_sample[1]) >= 1)
    => sp_out = Exact(sp_sample[1][((sp_run - 1) % Len(sp_sample[1])) + 1])

\* The run went through the loop boundary twice.
C16_Witness ==
    /\ sp_op = "next_sample" /\ sp_sample # None
    /\ Len(sp_sample[1]) = 2 /\ sp_sample[1][1] # sp_sample[1][2]
    /\ sp_run = 5
    /\ sp_out = Exact(sp_sample[1][1])

\* C17: the speed ratio is in [0.1, 4.0] in every reachable state.
C17_SpeedRatioClamped ==
    /\ sp_speed_ratio >= MIN_SPEED
    /\ sp_speed_ratio <= MAX_SPEED

\* set_speed_ratio was called with an input below the range (or NaN) and with
\* one above it.
C17_Witness ==
    /\ sp_op = "set_speed_ratio"
    /\ sp_speed_ratio \in {MIN_SPEED, MAX_SPEED}

(***************************************************************************)
(*                SIGNAL GENERATOR: SPECIFICATION AND CLAIMS               *)
(***************************************************************************)

\* The signal generator in use; the other subsystems at rest.
InitSignal ==
    SgInit /\ BufParked /\ GuardParked /\ WatchInit /\ HostInit /\ EdParked /\ SpParked
    /\ DevParked /\ AuxParked

SpecSignal ==
    /\ InitSignal
    /\ [][SgWaveNext]_vars

SpecGate ==
    /\ InitSignal
    /\ [][SgGateNext]_vars

\* [-1.0, 1.0] in the units of sg_out.
InUnitRange(v) == Abs(v) <= SampleUnit * AmpUnit

\* C18: with an amplitude in [0, 1] every sample of Sine, Square, WhiteNoise,
\* PinkNoise and Sweep lies in [-1, 1] on both channels.
C18_SamplesInRange ==
    (/\ sg_op = "next_sample"
     /\ sg_config.signal_type \in {"Sine", "Square", "WhiteNoise", "PinkNoise", "Sweep"}
     /\ sg_config.amplitude \in 0..AmpUnit)
    => InUnitRange(sg_out.left) /\ InUnitRange(sg_out.right)

\* The gate multiplier of sample i of an ideal pulse train of duty 1/2 whose
\* cycles are sample_rate / gate_rate samples long.
IdealHalfGate(i) ==
    IF 2 * ((i * sg_config.gate_rate) % (SAMPLE_RATE * RateUnit))
        < SAMPLE_RATE * RateUnit
    THEN 1
    ELSE 0

\* C19: with pattern Pulse, duty 0.5 and rate R from gate phase 0, the gate
\* is 1 in the first half and 0 in the second half of every cycle of
\* sample_rate / R samples, with no drift of the cycle boundaries.
C19_PulseExactHalves ==
    (/\ sg_op = "next_sample"
     /\ sg_n >= 1
     /\ sg_config.gate_pattern = "Pulse"
     /\ 2 * sg_config.gate_duty = DutyUnit)
    => sg_gate = IdealHalfGate(sg_n - 1)

ConfigSetters ==
    {"set_config", "set_frequency", "set_amplitude", "set_gate_pattern",
     "set_gate_rate", "set_gate_duty"}

\* C29 (as stated): after set_config and after each single-field setter
\* (set_frequency, set_amplitude, set_gate_pattern, set_gate_rate,
\* set_gate_duty) the three phase accumulators phase, sweep_phase and
\* gate_phase are zero.
C29_ConfigChangeResetsPhases ==
    sg_op \in ConfigSetters =>
        (sg_phase = 0 /\ sg_sweep_phase = 0 /\ sg_gate_phase = 0)

RECURSIVE SumRows(_)
SumRows(i) == IF i < 0 THEN 0 ELSE sg_pink_rows[i] + SumRows(i - 1)

\* C30 (as stated): pink_running_sum is the sum of the 16 rows, every row lies
\* in [-1, 1), and so the running sum lies in [-16, 16].
C30_RunningSumIsRowSum ==
    /\ sg_pink_running_sum = SumRows(15)
    /\ \A i \in 0..15 : sg_pink_rows[i] >= 0 - SampleUnit /\ sg_pink_rows[i] < SampleUnit
    /\ Abs(sg_pink_running_sum) <= 16 * SampleUnit

(***************************************************************************)
(*           OUTPUT DEVICE CONFIGURATION: SPECIFICATION AND CLAIMS         *)
(***************************************************************************)

\* A device and a preferred configuration; the other subsystems at rest.
InitDevice ==
    DevInit /\ BufParked /\ GuardParked /\ WatchInit /\ HostInit /\ EdParked /\ SpParked
    /\ SgParked /\ AuxParked

SpecDevice ==
    /\ InitDevice
    /\ [][DevNext]_vars

\* Some supported configuration covers the preferred rate and channel count.
SomeMatch ==
    \E i \in 1..Len(dev_device.supported.configs) :
        LET config == dev_device.supported.configs[i]
        IN  /\ config.min_sample_rate <= dev_preferred.sample_rate
            /\ dev_preferred.sample_rate <= config.max_sample_rate
            /\ config.channels >= dev_preferred.channels

\* C20: when the supported configurations can be queried, a matching one
\* yields the preferred rate, channel count and (fixed) buffer size; when none
\* matches and the default configuration can be queried, the result is the
\* default rate, the default channel count capped at 2 and the default
\* buffer size.
C20_SupportedConfig ==
    (dev_op = "get_supported_config" /\ dev_device.supported.ok) =>
        IF SomeMatch
        THEN dev_result = OkConfig(dev_preferred.channels, dev_preferred.sample_rate,
                                   BufferSizeFixed(dev_preferred.buffer_size))
        ELSE dev_device.default_config.ok =>
                /\ dev_result.ok
                /\ dev_result.sample_rate = dev_device.default_config.sample_rate
                /\ dev_result.channels =
                        (IF dev_device.default_config.channels > 2
                         THEN 2
                         ELSE dev_device.default_config.channels)
                /\ dev_result.buffer_size = BufferSizeDefault

\* No configuration matched although the device has some, and the default of
\* more than two channels was capped.
C20_Witness ==
    /\ dev_op = "get_supported_config" /\ dev_device.supported.ok
    /\ Len(dev_device.supported.configs) = MaxConfigs
    /\ ~SomeMatch
    /\ dev_device.default_config.ok /\ dev_device.default_config.channels > 2
    /\ dev_result.ok /\ dev_result.channels = 2

(***************************************************************************)
(*                  SAMPLE LOADING: SPECIFICATION AND CLAIMS               *)
(***************************************************************************)

\* A file to load; the other subsystems at rest.
InitLoad ==
    LdInit /\ BufParked /\ GuardParked /\ WatchInit /\ HostInit /\ EdParked
    /\ SpParked /\ SgParked /\ DevParked /\ InsParked /\ DlParked /\ OcParked
    /\ LateParked

SpecLoad ==
    /\ InitLoad
    /\ [][LdNext]_vars

\* The packets of the selected track that the decoder decoded.
Decoded(packets) ==
    SelectSeq(packets, LAMBDA p : p.track = "selected" /\ p.decode = "ok")

\* The frames of a list of decoded packets, in order, as stereo samples.
RECURSIVE FramesOf(_, _)
FramesOf(packets, channels) ==
    IF packets = <<>> THEN <<>>
    ELSE append_audio_buffer(Head(packets).buf, channels)
            \o FramesOf(Tail(packets), channels)

\* No packet of the selected track fails with an error other than DecodeError.
NoOtherError(packets) ==
    \A i \in 1..Len(packets) :
        packets[i].track = "selected" => packets[i].decode # "other_error"

\* C21: load returns an error when the file cannot be opened, the container
\* cannot be probed or no audio track is found; when decoding gets under way
\* and runs to the end of the stream, packets refused with a decode error
\* being skipped, it returns Ok holding, in order, the frames of every decoded
\* packet of the selected track.
C21_LoadContract ==
    ld_op = "load" =>
        /\ ld_file.stage = "open_fails" => ld_result = LdErr("Failed to open file")
        /\ ld_file.stage = "probe_fails" => ld_result = LdErr("Failed to probe format")
        /\ ld_file.stage = "no_track" => ld_result = LdErr("No audio track found")
        /\ (ld_file.stage = "decodes" /\ ld_file.end = "eof"
                /\ NoOtherError(ld_file.packets)) =>
              /\ ld_result.ok
              /\ ld_result.data =
                    FramesOf(Decoded(ld_file.packets),
                             IF ld_file.channels = 0 THEN 2 ELSE ld_file.channels)
              /\ ld_result.num_samples = Len(ld_result.data)

\* C21 witness: a packet refused with a decode error was followed by a decoded
\* packet, whose frames the loaded sample holds.
C21_Witness ==
    /\ ld_op = "load" /\ ld_result.ok
    /\ Len(ld_file.packets) = 2
    /\ ld_file.packets[1] = LdPacket("selected", "decode_error", <<>>)
    /\ ld_file.packets[2].track = "selected" /\ ld_file.packets[2].decode = "ok"
    /\ Len(ld_result.data) = Len(ld_file.packets[2].buf) /\ Len(ld_result.data) = 2

(***************************************************************************)
(*                   DEVICE LAYER: SPECIFICATION AND CLAIMS                *)
(***************************************************************************)

\* A host; the other subsystems at rest.
InitDeviceLayer ==
    DlInit /\ BufParked /\ GuardParked /\ WatchInit /\ HostInit /\ EdParked
    /\ SpParked /\ SgParked /\ DevParked /\ InsParked /\ LdParked /\ OcParked
    /\ LateParked

SpecDeviceLayer ==
    /\ InitDeviceLayer
    /\ [][DlNext]_vars

\* The call needs the default output device.
WantsDefault ==
    \/ dl_op.name \in {"get_default_output_device", "get_default_sample_rate"}
    \/ dl_op.name = "get_output_device" /\ ~dl_op.arg.some

\* The call enumerates the output devices.
Enumerates ==
    \/ dl_op.name = "list_output_devices"
    \/ dl_op.name = "get_output_device" /\ dl_op.arg.some

Named(n) ==
    \E i \in 1..Len(dl_host.devices) :
        dl_host.devices[i].name_ok /\ dl_host.devices[i].name = n

\* C22: no call of the device layer panics; an Err carries a message; and each
\* failure is an Err: enumeration failure, no default output device, a named
\* device that is not found, and a supported or default configuration that
\* cannot be queried.
C22_FailuresAreErrors ==
    dl_op # DlNoCall =>
        /\ dl_result.kind \in {"Ok", "Err"}
        /\ dl_result.kind = "Err" => dl_result.err # ""
        /\ (Enumerates /\ ~dl_host.enumerate_ok) =>
                dl_result = DlErr("Failed to enumerate devices")
        /\ (WantsDefault /\ dl_host.default = 0) =>
                dl_result = DlErr("No default output device found")
        /\ (dl_op.name = "get_output_device" /\ dl_op.arg.some
                /\ dl_host.enumerate_ok /\ ~Named(dl_op.arg.name)) =>
                (dl_result.kind = "Err" /\ dl_result.err # "")
        /\ (dl_op.name = "get_default_sample_rate" /\ dl_host.default # 0
                /\ ~dl_host.devices[dl_host.default].answers.default_config.ok) =>
                dl_result = DlErr("Failed to get default config")
        /\ dl_op.name = "get_supported_config" =>
              LET answers == dl_host.devices[dl_op.device].answers IN
                /\ ~answers.supported.ok =>
                        dl_result = DlErr("Failed to get supported configs")
                /\ (answers.supported.ok /\ ~answers.default_config.ok) =>
                        dl_result = DlErr("Failed to get default config")

\* C22 witness: get_default_sample_rate was called on a host that enumerates
\* devices but has no default output device, and returned the error.
C22_Witness ==
    /\ dl_op.name = "get_default_sample_rate"
    /\ dl_host.default = 0 /\ Len(dl_host.devices) = MaxDevices
    /\ dl_result.kind = "Err" /\ dl_result.err = "No default output device found"

(***************************************************************************)
(*                PLUGIN_HOST_STATE: SPECIFICATION AND CLAIMS              *)
(***************************************************************************)

\* Threads calling init_plugin_host and get_plugin_host_state; the other
\* subsystems at rest.
InitHostCell ==
    OcInit /\ BufParked /\ GuardParked /\ WatchInit /\ HostInit /\ EdParked
    /\ SpParked /\ SgParked /\ DevParked /\ InsParked /\ LdParked /\ DlParked
    /\ LateParked

SpecHostCell ==
    /\ InitHostCell
    /\ [][OcNext]_vars

\* C23: at most one PluginHostState is ever created, and exactly one once an
\* init_plugin_host call has returned; every init_plugin_host call returns
\* that instance; get_plugin_host_state returns None when no init has been
\* started and that instance when an init had returned before the call; the
\* instance starts Unloaded, without plugin, of type Effect, with auto-reload
\* off and no watched path.
C23_OneHostState ==
    /\ oc_created <= 1
    /\ oc_calls.returned > 0 => oc_created = 1
    /\ \A t \in HostThreads :
          /\ oc_ret[t].op = "init" => oc_ret[t].val = 1
          /\ oc_ret[t].op = "get" =>
                /\ oc_ret[t].val \in {0, 1}
                /\ oc_ret[t].started = 0 => oc_ret[t].val = 0
                /\ oc_ret[t].returned > 0 => oc_ret[t].val = 1
    /\ oc_created > 0 =>
          /\ oc_instance.state = Unloaded
          /\ oc_instance.plugin = 0
          /\ oc_instance.plugin_type = "Effect"
          /\ ~oc_instance.auto_reload
          /\ oc_instance.watched_path = "none"

\* C23 witness: two init_plugin_host calls have returned, and a
\* get_plugin_host_state made after them has returned the one instance.
C23_Witness ==
    /\ oc_created = 1 /\ oc_calls.returned = 2
    /\ \E t, u \in HostThreads :
          /\ t # u
          /\ oc_ret[t] = OcRet("init", 1, 0, 0)
          /\ oc_ret[u].op = "get" /\ oc_ret[u].val = 1 /\ oc_ret[u].returned = 2


(***************************************************************************)
(*        SIGNAL GENERATOR: OSCILLATOR PHASE AND IMPULSE TRAIN             *)
(***************************************************************************)

\* C31: after every next_sample of Sine or Square the phase accumulator lies
\* in [0, 1), whatever frequency has been configured.
C31_PhaseInUnitInterval ==
    (sg_op = "next_sample" /\ sg_config.signal_type \in {"Sine", "Square"})
    => (0 <= sg_phase /\ sg_phase < SAMPLE_RATE)

\* The whole periods of sample_rate / max(frequency, 0.1) samples that have
\* elapsed after the given number of calls.
PeriodsElapsed(calls) ==
    (calls * Max(sg_config.frequency * RateUnit, RateUnit \div 10))
        \div (SAMPLE_RATE * RateUnit)

\* C38: starting from a reset phase, with a frequency of at most the sample
\* rate, Impulse has emitted one 1.0 for every period of
\* sample_rate / max(frequency, 0.1) calls that has elapsed, and 0.0 on all
\* other calls.
C38_ImpulseOncePerPeriod ==
    (/\ sg_config.signal_type = "Impulse"
     /\ sg_config.frequency <= SAMPLE_RATE
     /\ sg_impulse_run # BrokenRun)
    => sg_impulse_run.impulses = PeriodsElapsed(sg_impulse_run.calls)


(***************************************************************************)
(*            PLUGIN WATCHER: CALLBACK PATH AND EVENT KINDS                *)
(***************************************************************************)

\* C32: every invocation of the reload callback receives the path that was
\* passed to the watch() call that registered it (every watch() here passes
\* the one path of Paths), never an empty or different path.
C32_CallbackGetsWatchedPath ==
    lastCallback.gen # 0 => lastCallback.path \in Paths

\* The watcher with the kinds of the delivered events on record.
SpecWatcherKinds ==
    /\ InitWatcher
    /\ [][WatchKindsNext]_vars

\* C39: only Modify and Create events count as changes: the delivery of any
\* other event or of an error leaves the last-event timestamp, the channel to
\* the debounce thread and the callback record as they are, and as long as no
\* Modify or Create event has been delivered there is no timestamp and no
\* reload callback has been invoked.
C39_OnlyChangesCount ==
    /\ [](~ev_seen.change => (last_event_time = NoTime /\ lastCallback.gen = 0))
    /\ [][\A g \in Gens : \A kind \in EventKinds \ {"Modify", "Create"} :
            FsEventSeen(g, kind)
            => UNCHANGED <<last_event_time, evq, lastCallback>>]_vars

\* C39 witness: only events of other kinds or errors have been delivered to a
\* successful watch, and its debounce thread has waited out a whole poll
\* interval with no timestamp to look at.
C39_Witness ==
    /\ ev_seen.ignored /\ ~ev_seen.change
    /\ watchRet = "Ok" /\ last_event_time = NoTime
    /\ \E g \in Gens : dpc[g] = "recv" /\ waited[g] >= POLL_MS /\ fsWatch[g] # "none"

(***************************************************************************)
(*                 EDITOR WINDOW: FAILED CREATION                          *)
(***************************************************************************)

\* C33: whenever create_editor_window_at returns Err for a plugin that
\* provides gui.destroy, it has left no plugin GUI that it created and no host
\* window that it created behind.
C33_ErrLeavesNothing ==
    (ed_ret = "Err" /\ ed_gui.destroy)
    => (ed_plugin_gui # "created" /\ ed_hwnd # "open")

(***************************************************************************)
(*            WINDOW CLASS REGISTRATION: SPECIFICATION AND CLAIMS          *)
(***************************************************************************)

\* Threads calling ensure_window_class_registered; the other subsystems at
\* rest.
InitClass ==
    WcInit /\ BufParked /\ GuardParked /\ WatchInit /\ HostInit /\ EdParked
    /\ SpParked /\ SgParked /\ DevParked /\ InsParked /\ LdParked /\ DlParked
    /\ OcParked /\ KindParked

SpecClass ==
    /\ InitClass
    /\ [][WcNext]_vars

\* C37: under any interleaving of concurrent callers, a call of
\* ensure_window_class_registered that has returned Ok(()) has returned with
\* the window class registered.
C37_OkMeansRegistered ==
    \A t \in ClassThreads : wc_ret[t] = "Ok" => wc_class

(***************************************************************************)
(*            SAMPLE PLAYER: RESTARTING, PAUSING AND POSITIONS             *)
(***************************************************************************)

\* C34 as stated: once next_sample has found the end of a sample that does not
\* loop, every later next_sample returns silence and leaves is_playing false,
\* until stop(), load_sample() or set_looping(true) is called.
C34_NoRestartByPlay ==
    ((sp_ended \/ sp_unloaded_at_end) /\ sp_op = "next_sample")
    => (sp_out = StereoSilence /\ ~sp_is_playing)

\* C34, amended: after the end of a sample that does not loop, play() only
\* sets is_playing and moves nothing; until stop(), load_sample(), unload()
\* or set_looping(true) every next_sample returns silence and leaves
\* is_playing false; after unload() the calls still return silence.
C34_NoRestartWhileLoaded ==
    /\ [][(sp_ended /\ sp_op' = "play")
            => (/\ sp_is_playing' /\ sp_ended'
                /\ UNCHANGED <<sp_sample, sp_position,
                               sp_fractional_position>>)]_vars
    /\ []((sp_ended /\ sp_op = "next_sample")
            => (sp_out = StereoSilence /\ ~sp_is_playing))
    /\ []((sp_unloaded_at_end /\ sp_op = "next_sample") => sp_out = StereoSilence)

\* C34 witness: the sample was unloaded after its end had been found, play()
\* was called, and next_sample has returned silence with is_playing still true.
C34_Witness ==
    /\ sp_unloaded_at_end /\ sp_op = "next_sample"
    /\ sp_sample = None /\ sp_is_playing /\ ~sp_is_looping
    /\ sp_out = StereoSilence

\* C35: a next_sample call on a player that is not playing or has no sample
\* returns silence and leaves position and fractional position alone; pause()
\* and play() change neither of them (nor the sample), so that play() after
\* pause() resumes where it was paused; stop() leaves the player at frame 0,
\* fraction 0, so that play() after stop() restarts from the beginning.
C35_PauseKeepsPlace ==
    /\ [][(sp_op' = "next_sample" /\ (~sp_is_playing \/ sp_sample = None))
            => (/\ sp_out' = StereoSilence
                /\ UNCHANGED <<sp_position, sp_fractional_position>>)]_vars
    /\ [][(sp_op' \in {"pause", "play"})
            => UNCHANGED <<sp_sample, sp_position, sp_fractional_position>>]_vars
    /\ [](sp_op = "stop"
            => (sp_position = 0 /\ sp_fractional_position = 0 /\ ~sp_is_playing))

\* C35 witness: playback was paused inside the second frame, part of the way
\* to the next one, and next_sample has been called on the paused player.
C35_Witness ==
    /\ sp_op = "next_sample" /\ ~sp_is_playing /\ ~sp_ended
    /\ sp_sample # None /\ Len(sp_sample[1]) = MaxFrames
    /\ sp_position = 1 /\ sp_fractional_position > 0
    /\ sp_out = StereoSilence

\* The frame index a next_sample call interpolated from, recovered from the
\* position it left: position and fraction advanced by the speed ratio.
PlayedFrom ==
    ((sp_position' * FracUnit + sp_fractional_position') - sp_speed_ratio)
        \div FracUnit

\* C36: the fractional position lies in [0, 1) in every state, and a
\* next_sample call that interpolates from a non-empty sample does so at a
\* frame index below the number of frames.
C36_PositionsInRange ==
    /\ [](0 <= sp_fractional_position /\ sp_fractional_position < FracUnit)
    /\ [][(/\ sp_op' = "next_sample"
           /\ sp_is_playing /\ sp_is_playing'
           /\ sp_sample # None /\ sp_sample[1] # <<>>)
            => (0 <= PlayedFrom /\ PlayedFrom < Len(sp_sample[1]))]_vars

\* C36 witness: at a speed ratio that is not a whole number, next_sample has
\* interpolated from the last frame and left the position past the end with a
\* fraction.
C36_Witness ==
    /\ sp_op = "next_sample" /\ sp_is_playing
    /\ sp_sample # None /\ Len(sp_sample[1]) = MaxFrames
    /\ sp_position >= MaxFrames /\ sp_fractional_position > 0
    /\ sp_out # StereoSilence

=============================================================================
